---- MODULE Spec2Model ----
(***************************************************************************)
(* MileSync multi-agent coaching core: the Foundation, Planning, Support   *)
(* and Execution agents, the coordinator that routes a turn to one of      *)
(* them, and the agent stage of the chat route that calls the coordinator. *)
(*                                                                         *)
(* Every call is request scoped: a context and the completion capability's *)
(* reply go in, one response comes out.  The state is the call in flight:  *)
(* its inputs, its position and its outcome.                               *)
(***************************************************************************)
EXTENDS Integers, Sequences, FiniteSets, TLC

VARIABLES
    pc,          \* position of the call in flight
    agent,       \* the agent whose process() is called
    context,     \* the AgentContext handed to the agent
    completion,  \* what the completion capability does when it is called
    today,       \* datetime.utcnow().date(), as a day number
    response,    \* the outcome of process() / route()
    draw,        \* what random.choice picks when it is called
    result,      \* the value returned by the pure helper under check
    caller,      \* what the agent stage of send_message ends with
    args,        \* the scalar arguments of the pure helper under check
    users,       \* the users table, by id
    requests,    \* the HTTP requests in flight or ended, by number
    chats,       \* the chat sessions, their messages and the goals made of them
    chain        \* the agents invoked so far by following next_agent hints

vars == <<pc, agent, context, completion, today, draw, response, result, caller, args,
          users, requests, chats, chain>>

(***************************************************************************)
(* Text.  A Python str is a sequence of one-character strings.             *)
(***************************************************************************)
UpperAlpha ==
    <<"A","B","C","D","E","F","G","H","I","J","K","L","M",
      "N","O","P","Q","R","S","T","U","V","W","X","Y","Z">>

LowerAlpha ==
    <<"a","b","c","d","e","f","g","h","i","j","k","l","m",
      "n","o","p","q","r","s","t","u","v","w","x","y","z">>

\* str.lower() on one character
LowerChar(c) ==
    IF \E i \in 1..26 : UpperAlpha[i] = c
    THEN LowerAlpha[CHOOSE i \in 1..26 : UpperAlpha[i] = c]
    ELSE c

\* str.lower()
Lower(s) == [i \in 1..Len(s) |-> LowerChar(s[i])]

\* word in text
Contains(text, word) ==
    \E i \in 1..(Len(text) - Len(word) + 1) :
        \A j \in 1..Len(word) : text[i + j - 1] = word[j]

\* sep.join(parts)
RECURSIVE Join(_, _)
Join(parts, sep) ==
    IF Len(parts) = 0 THEN <<>>
    ELSE IF Len(parts) = 1 THEN parts[1]
    ELSE parts[1] \o sep \o Join(Tail(parts), sep)

Pad(n) == [i \in 1..n |-> "x"]

(***************************************************************************)
(* AgentContext and AgentResponse.                                         *)
(***************************************************************************)
\* one entry of context.messages; content_kind "null" is a content of None
Message(role, content_kind, content) ==
    [role |-> role, content_kind |-> content_kind, content |-> content]

\* context.additional_context: None, or a mapping with the keys the agents read
NoAdditionalContext ==
    [kind |-> "none", generate_assessment |-> FALSE, agent_type |-> "<absent>",
     request_type |-> "<absent>"]

AdditionalContext(generate_assessment, agent_type, request_type) ==
    [kind |-> "dict", generate_assessment |-> generate_assessment,
     agent_type |-> agent_type, request_type |-> request_type]

AgentContext(messages, additional_context, current_goal, task_history) ==
    [messages |-> messages, additional_context |-> additional_context,
     current_goal |-> current_goal, task_history |-> task_history]

\* the agent types that are modelled
AgentTypes == {"foundation", "planning", "execution", "support"}

NoData == [schema |-> "none"]

\* BaseAgent.create_response: the fields given, the rest at their defaults
create_response(agent_type, success, message, data, requires_user_input, next_agent) ==
    [kind |-> "response", exc |-> "", agent_type |-> agent_type,
     success |-> success, message |-> message, data |-> data,
     requires_user_input |-> requires_user_input, next_agent |-> next_agent]

\* the call does not return: the exception leaves the callee
Raised(exc) ==
    [kind |-> "raised", exc |-> exc, agent_type |-> "", success |-> FALSE,
     message |-> <<>>, data |-> NoData, requires_user_input |-> FALSE,
     next_agent |-> "none"]

NoResponse ==
    [kind |-> "none", exc |-> "", agent_type |-> "", success |-> FALSE,
     message |-> <<>>, data |-> NoData, requires_user_input |-> FALSE,
     next_agent |-> "none"]

(***************************************************************************)
(* The completion capability.  A reply is a sequence of tokens: a fence    *)
(* opening a json block, a bare fence, whitespace, prose, text that is no  *)
(* JSON, and the serialised payload.                                      *)
(***************************************************************************)
\* text.split(delim)[1], for a text that holds delim
RECURSIVE AfterFirst(_, _)
AfterFirst(toks, delims) ==
    IF Len(toks) = 0 THEN <<>>
    ELSE IF Head(toks) \in delims THEN Tail(toks)
    ELSE AfterFirst(Tail(toks), delims)

\* text.split(delim)[0]
RECURSIVE UpToFirst(_, _)
UpToFirst(toks, delims) ==
    IF Len(toks) = 0 THEN <<>>
    ELSE IF Head(toks) \in delims THEN <<>>
    ELSE <<Head(toks)>> \o UpToFirst(Tail(toks), delims)

HasToken(toks, delims) == \E i \in 1..Len(toks) : toks[i] \in delims

\* the clean-up every agent applies before json.loads
StripFences(toks) ==
    IF HasToken(toks, {"FENCE_JSON"})
    THEN UpToFirst(AfterFirst(toks, {"FENCE_JSON"}), {"FENCE", "FENCE_JSON"})
    ELSE IF HasToken(toks, {"FENCE", "FENCE_JSON"})
    THEN UpToFirst(AfterFirst(toks, {"FENCE"}), {"FENCE"})
    ELSE toks

\* str.strip()
RECURSIVE LStrip(_)
LStrip(toks) ==
    IF Len(toks) > 0 /\ Head(toks) = "WS" THEN LStrip(Tail(toks)) ELSE toks

RECURSIVE RStrip(_)
RStrip(toks) ==
    IF Len(toks) > 0 /\ toks[Len(toks)] = "WS"
    THEN RStrip(SubSeq(toks, 1, Len(toks) - 1)) ELSE toks

Strip(toks) == RStrip(LStrip(toks))

\* json.loads succeeds on exactly one serialised value
JsonDecodes(toks) == toks = <<"JSON">>

\* the parsed reply: a JSON object with the keys the agents read, or a JSON list
EmptyPayload ==
    [shape |-> "dict", goal_type |-> "<absent>", motivation_score |-> "<absent>",
     milestones |-> <<>>, daily |-> <<>>, weekly |-> <<>>, monthly |-> <<>>,
     recommended_resources |-> <<>>]

\* kind: "no_client" (get_openai_client() is None), "api_error" (create raises),
\* "null_content" (message.content is None), "text" (a reply of tokens)
Completion(kind, text, payload) == [kind |-> kind, text |-> text, payload |-> payload]

\* str(e) of what client.chat.completions.create raises
ApiErrorText == "Connection error."

(***************************************************************************)
(* Foundation agent.                                                       *)
(***************************************************************************)
MinMessages == 4
MinConversationLength == 200

TimelineWords ==
    << <<"m","o","n","t","h">>, <<"w","e","e","k">>, <<"y","e","a","r">>,
       <<"b","y">>, <<"u","n","t","i","l">>, <<"b","e","f","o","r","e">>,
       <<"d","e","a","d","l","i","n","e">> >>

MotivationWords ==
    << <<"b","e","c","a","u","s","e">>, <<"w","a","n","t"," ","t","o">>,
       <<"n","e","e","d"," ","t","o">>, <<"h","o","p","i","n","g">>,
       <<"g","o","a","l"," ","i","s">>, <<"d","r","e","a","m">> >>

\* any(word in text for word in words)
AnyWordIn(text, words) == \E w \in 1..Len(words) : Contains(text, words[w])

\* [msg.get("content", "") for msg in messages if msg.get("role") == "user"]
RECURSIVE UserContents(_)
UserContents(messages) ==
    IF Len(messages) = 0 THEN <<>>
    ELSE IF Head(messages).role = "user"
    THEN <<Head(messages).content>> \o UserContents(Tail(messages))
    ELSE UserContents(Tail(messages))

\* str.join raises TypeError on an item that is None
UserContentIsNull(messages) ==
    \E i \in 1..Len(messages) :
        messages[i].role = "user" /\ messages[i].content_kind = "null"

\* the three signals joined by "or"
ConversationIsComplete_AnySignal(conversation_text) ==
    LET has_timeline   == AnyWordIn(conversation_text, TimelineWords)
        has_motivation == AnyWordIn(conversation_text, MotivationWords)
        has_specifics  == Len(conversation_text) > MinConversationLength
    IN  has_timeline \/ has_motivation \/ has_specifics

\* the conjunction of the three signals read off the lower-cased user text
ConversationIsComplete(conversation_text) ==
    LET has_timeline   == AnyWordIn(conversation_text, TimelineWords)
        has_motivation == AnyWordIn(conversation_text, MotivationWords)
        has_specifics  == Len(conversation_text) > MinConversationLength
    IN  has_timeline /\ has_motivation /\ has_specifics

\* FoundationAgent._should_generate_assessment: exc is "" when it returns value
FoundationAgent_should_generate_assessment(ctx) ==
    IF Len(ctx.messages) < MinMessages
    THEN [exc |-> "", value |-> FALSE]
    ELSE IF ctx.additional_context.kind = "dict"
            /\ ctx.additional_context.generate_assessment
    THEN [exc |-> "", value |-> TRUE]
    ELSE IF UserContentIsNull(ctx.messages)
    THEN [exc |-> "TypeError", value |-> FALSE]
    ELSE [exc |-> "",
          value |-> ConversationIsComplete(
                        Lower(Join(UserContents(ctx.messages), <<" ">>)))]

\* BaseAgent.generate_response: the completion capability's free text, or it raises
generate_response(cmpl) ==
    IF cmpl.kind = "text" THEN [exc |-> "", text |-> cmpl.text]
    ELSE [exc |-> "CompletionError", text |-> <<>>]

IntakeFailureMessage ==
    <<"I encountered an issue. Let's try again. What goal would you like to work on?">>

\* an intake that hints at the Planning agent as soon as the question is out
FoundationAgent_continue_intake_Chains(ctx, cmpl) ==
    LET r == generate_response(cmpl)
    IN  IF r.exc = ""
        THEN create_response("foundation", TRUE, r.text,
                 [schema |-> "intake", stage |-> "intake",
                  ready_for_assessment |-> FALSE],
                 TRUE, "planning")
        ELSE create_response("foundation", FALSE, IntakeFailureMessage,
                 NoData, FALSE, "none")

\* FoundationAgent._continue_intake
FoundationAgent_continue_intake(ctx, cmpl) ==
    LET r == generate_response(cmpl)
    IN  IF r.exc = ""
        THEN create_response("foundation", TRUE, r.text,
                 [schema |-> "intake", stage |-> "intake",
                  ready_for_assessment |-> FALSE],
                 TRUE, "none")
        ELSE create_response("foundation", FALSE, IntakeFailureMessage,
                 NoData, FALSE, "none")

\* FoundationAgent._summarize_conversation: msg.get("content", "")[:500] raises
\* TypeError on a content of None
SummarizeRaises(messages) ==
    \E i \in 1..Len(messages) : messages[i].content_kind = "null"

\* the members of GoalType, by value
GoalTypeValues == {"short_term", "long_term", "resolution"}

\* str.lower() on the goal-type strings the completion capability may send
LowerGoalType(s) ==
    CASE s = "SHORT_TERM" -> "short_term"
      [] s = "LONG_TERM"  -> "long_term"
      [] s = "Resolution" -> "resolution"
      [] s = "RESOLUTION" -> "resolution"
      [] s = "Medium_Term" -> "medium_term"
      [] OTHER -> s

\* FoundationOutput(...): the three scores are integers from 1 to 10
ValidScore(v) == v \in {"1", "2", "3", "4", "5", "6", "7", "8", "9", "10"}

AssessmentParseFailureMessage ==
    <<"I had trouble processing the assessment. Let me try again.">>

\* f"Error generating assessment: {str(e)}"
AssessmentErrorMessage(exc_text) == <<"Error generating assessment: ", exc_text>>

\* the body of the inner try of _generate_assessment, after json.loads:
\* exc is str(e) of what it raises, "" when the output is built
BuildFoundationOutput(payload) ==
    IF payload.shape # "dict"
    THEN [exc |-> "'list' object has no attribute 'get'", goal_type |-> ""]
    ELSE IF payload.goal_type = "<null>"
    THEN [exc |-> "'NoneType' object has no attribute 'lower'", goal_type |-> ""]
    ELSE
      LET raw == IF payload.goal_type = "<absent>" THEN "long_term"
                 ELSE payload.goal_type
          gt  == LowerGoalType(raw)
          ms  == IF payload.motivation_score = "<absent>" THEN "5"
                 ELSE payload.motivation_score
      IN  IF gt \notin GoalTypeValues
          THEN [exc |-> "not a valid GoalType", goal_type |-> ""]
          ELSE IF ~ValidScore(ms)
          THEN [exc |-> "1 validation error for FoundationOutput", goal_type |-> ""]
          ELSE [exc |-> "", goal_type |-> gt]

\* FoundationAgent._format_assessment_message
FormatAssessmentMessage(goal_type) ==
    <<"## Goal Foundation Assessment", "**Goal Type:** ", goal_type,
      "I'm now ready to help you create a detailed action plan!">>

\* FoundationAgent._generate_assessment
FoundationAgent_generate_assessment(ctx, cmpl) ==
    IF SummarizeRaises(ctx.messages) THEN Raised("TypeError")
    ELSE IF cmpl.kind = "no_client"
    THEN create_response("foundation", FALSE,
             AssessmentErrorMessage("OpenAI client not configured"),
             NoData, FALSE, "none")
    ELSE IF cmpl.kind = "api_error"
    THEN create_response("foundation", FALSE,
             AssessmentErrorMessage(ApiErrorText), NoData, FALSE, "none")
    ELSE IF cmpl.kind = "null_content"
    THEN create_response("foundation", FALSE,
             AssessmentErrorMessage("argument of type 'NoneType' is not iterable"),
             NoData, FALSE, "none")
    ELSE IF ~JsonDecodes(Strip(StripFences(cmpl.text)))
    THEN create_response("foundation", FALSE, AssessmentParseFailureMessage,
             NoData, FALSE, "none")
    ELSE
      LET out == BuildFoundationOutput(cmpl.payload)
      IN  IF out.exc # ""
          THEN create_response("foundation", FALSE,
                   AssessmentErrorMessage(out.exc), NoData, FALSE, "none")
          ELSE create_response("foundation", TRUE,
                   FormatAssessmentMessage(out.goal_type),
                   [schema |-> "FoundationOutput", goal_type |-> out.goal_type],
                   FALSE, "planning")

\* FoundationAgent.process
FoundationAgent_process(ctx, cmpl) ==
    LET ready == FoundationAgent_should_generate_assessment(ctx)
    IN  IF ready.exc # "" THEN Raised(ready.exc)
        ELSE IF ready.value THEN FoundationAgent_generate_assessment(ctx, cmpl)
        ELSE FoundationAgent_continue_intake(ctx, cmpl)

(***************************************************************************)
(* Planning agent.                                                         *)
(***************************************************************************)
\* the members of TaskFrequency, by value
TaskFrequencyValues == {"daily", "weekly", "monthly", "one_time"}

\* try: TaskFrequency(t.get("frequency", "one_time")) except ValueError: ONE_TIME
CoerceFrequency(t) ==
    LET raw == IF t.frequency = "<absent>" THEN "one_time" ELSE t.frequency
    IN  IF raw \in TaskFrequencyValues THEN raw ELSE "one_time"

TaskScheduleItem(title, frequency) == [title |-> title, frequency |-> frequency]

\* a parse_tasks that skips the tasks whose frequency is no member
RECURSIVE parse_tasks_SkipInvalid(_)
parse_tasks_SkipInvalid(task_list) ==
    IF Len(task_list) = 0 THEN <<>>
    ELSE LET t == Head(task_list)
         IN  IF t.frequency \in TaskFrequencyValues \cup {"<absent>"}
             THEN <<TaskScheduleItem(t.title, CoerceFrequency(t))>>
                      \o parse_tasks_SkipInvalid(Tail(task_list))
             ELSE parse_tasks_SkipInvalid(Tail(task_list))

\* parse_tasks, and the same loop over a milestone's tasks
parse_tasks(task_list) ==
    [i \in 1..Len(task_list) |->
        TaskScheduleItem(task_list[i].title, CoerceFrequency(task_list[i]))]

MilestoneOutput(m) == [id |-> m.id, tasks |-> parse_tasks(m.tasks)]

MaxDailyTasks == 3
MaxWeeklyTasks == 5

\* TaskSchedule(daily=..., weekly=..., monthly=...): the buckets are capped
TaskScheduleAccepts(daily, weekly) ==
    Len(daily) <= MaxDailyTasks /\ Len(weekly) <= MaxWeeklyTasks

NoPlan == [schema |-> "none"]

PlanningOutput(milestones, daily, weekly, monthly) ==
    [schema |-> "PlanningOutput", milestones |-> milestones,
     task_schedule |-> [daily |-> daily, weekly |-> weekly, monthly |-> monthly]]

\* a build that fills the schedule without validating it
PlanningAgent_build_planning_output_Unchecked(plan_data) ==
    IF plan_data.shape # "dict"
    THEN [exc |-> "'list' object has no attribute 'get'", output |-> NoPlan]
    ELSE [exc |-> "",
          output |-> PlanningOutput(
              [i \in 1..Len(plan_data.milestones) |->
                  MilestoneOutput(plan_data.milestones[i])],
              parse_tasks(plan_data.daily), parse_tasks(plan_data.weekly),
              parse_tasks(plan_data.monthly))]

\* PlanningAgent._build_planning_output: exc is str(e) of what it raises
PlanningAgent_build_planning_output(plan_data) ==
    IF plan_data.shape # "dict"
    THEN [exc |-> "'list' object has no attribute 'get'", output |-> NoPlan]
    ELSE
      LET milestones == [i \in 1..Len(plan_data.milestones) |->
                            MilestoneOutput(plan_data.milestones[i])]
          daily   == parse_tasks(plan_data.daily)
          weekly  == parse_tasks(plan_data.weekly)
          monthly == parse_tasks(plan_data.monthly)
      IN  IF ~TaskScheduleAccepts(daily, weekly)
          THEN [exc |-> "1 validation error for TaskSchedule", output |-> NoPlan]
          ELSE [exc |-> "",
                output |-> PlanningOutput(milestones, daily, weekly, monthly)]

PlanParseFailureMessage ==
    <<"I had trouble creating the plan structure. Let me try again.">>

\* f"Error generating plan: {str(e)}"
PlanErrorMessage(exc_text) == <<"Error generating plan: ", exc_text>>

\* PlanningAgent._format_plan_message
FormatPlanMessage(output) ==
    <<"## Your Action Plan", "Ready to start tracking your progress!">>

\* PlanningAgent._generate_plan
PlanningAgent_generate_plan(ctx, cmpl) ==
    IF cmpl.kind = "no_client"
    THEN create_response("planning", FALSE,
             PlanErrorMessage("OpenAI client not configured"), NoData, FALSE, "none")
    ELSE IF cmpl.kind = "api_error"
    THEN create_response("planning", FALSE,
             PlanErrorMessage(ApiErrorText), NoData, FALSE, "none")
    ELSE IF cmpl.kind = "null_content"
    THEN create_response("planning", FALSE,
             PlanErrorMessage("argument of type 'NoneType' is not iterable"),
             NoData, FALSE, "none")
    ELSE IF ~JsonDecodes(Strip(StripFences(cmpl.text)))
    THEN create_response("planning", FALSE, PlanParseFailureMessage,
             NoData, FALSE, "none")
    ELSE
      LET built == PlanningAgent_build_planning_output(cmpl.payload)
      IN  IF built.exc # ""
          THEN create_response("planning", FALSE, PlanErrorMessage(built.exc),
                   NoData, FALSE, "none")
          ELSE create_response("planning", TRUE, FormatPlanMessage(built.output),
                   built.output, FALSE, "execution")

\* PlanningAgent.process
PlanningAgent_process(ctx, cmpl) == PlanningAgent_generate_plan(ctx, cmpl)

(***************************************************************************)
(* Support agent.                                                          *)
(***************************************************************************)
Resource(type, name) == [type |-> type, name |-> name]

\* float(r.get("relevance_score", 0.5)) raises ValueError on a text that is no number
RelevanceIsNumber(r) == r.relevance_score \in {"<absent>", "0.9", "0.4"}

\* SupportAgent._build_support_output
SupportAgent_build_support_output(data) ==
    IF data.shape # "dict"
    THEN [exc |-> "'list' object has no attribute 'get'", resources |-> <<>>]
    ELSE IF \E i \in 1..Len(data.recommended_resources) :
                ~RelevanceIsNumber(data.recommended_resources[i])
    THEN [exc |-> "could not convert string to float", resources |-> <<>>]
    ELSE [exc |-> "",
          resources |-> [i \in 1..Len(data.recommended_resources) |->
              Resource(data.recommended_resources[i].type,
                       data.recommended_resources[i].name)]]

\* the built-in list of _generate_fallback_recommendations
FallbackResources ==
    <<Resource("TOOL", "Google Calendar"), Resource("COMMUNITY", "Reddit Goal Setting")>>

SupportOutput(resources) ==
    [schema |-> "SupportOutput", recommended_resources |-> resources]

\* SupportAgent._format_recommendations_message
FormatRecommendationsMessage(resources) ==
    <<"## Recommended Resources">>
    \o [i \in 1..Len(resources) |-> resources[i].name]

\* SupportAgent._generate_fallback_recommendations
SupportAgent_generate_fallback_recommendations(ctx) ==
    create_response("support", TRUE, FormatRecommendationsMessage(FallbackResources),
        SupportOutput(FallbackResources), FALSE, "none")

\* a recommendation path whose outer handler reports the error
SupportAgent_generate_recommendations_Reports(ctx, cmpl) ==
    IF cmpl.kind = "no_client"
    THEN SupportAgent_generate_fallback_recommendations(ctx)
    ELSE IF cmpl.kind \in {"api_error", "null_content"}
    THEN create_response("support", FALSE, <<"Error generating recommendations">>,
             NoData, FALSE, "none")
    ELSE IF ~JsonDecodes(Strip(StripFences(cmpl.text)))
    THEN SupportAgent_generate_fallback_recommendations(ctx)
    ELSE
      LET built == SupportAgent_build_support_output(cmpl.payload)
      IN  IF built.exc # ""
          THEN create_response("support", FALSE, <<"Error generating recommendations">>,
                   NoData, FALSE, "none")
          ELSE create_response("support", TRUE,
                   FormatRecommendationsMessage(built.resources),
                   SupportOutput(built.resources), FALSE, "none")

\* SupportAgent._generate_recommendations
SupportAgent_generate_recommendations(ctx, cmpl) ==
    IF cmpl.kind = "no_client"
    THEN SupportAgent_generate_fallback_recommendations(ctx)
    ELSE IF cmpl.kind \in {"api_error", "null_content"}
    THEN SupportAgent_generate_fallback_recommendations(ctx)
    ELSE IF ~JsonDecodes(Strip(StripFences(cmpl.text)))
    THEN SupportAgent_generate_fallback_recommendations(ctx)
    ELSE
      LET built == SupportAgent_build_support_output(cmpl.payload)
      IN  IF built.exc # ""
          THEN SupportAgent_generate_fallback_recommendations(ctx)
          ELSE create_response("support", TRUE,
                   FormatRecommendationsMessage(built.resources),
                   SupportOutput(built.resources), FALSE, "none")

\* SupportAgent.process
SupportAgent_process(ctx, cmpl) == SupportAgent_generate_recommendations(ctx, cmpl)

(***************************************************************************)
(* Execution agent.  A timestamp is None, an ISO text naming a calendar    *)
(* day with a suffix ("" or "Z"), or text that is no date.  A task record  *)
(* has a title, a status, created_at and completed_at.                     *)
(***************************************************************************)
NoTimestamp == [kind |-> "none", day |-> 0, suffix |-> ""]
IsoTimestamp(day, suffix) == [kind |-> "iso", day |-> day, suffix |-> suffix]
GarbageTimestamp == [kind |-> "garbage", day |-> 0, suffix |-> ""]

Task(title, status, created_at, completed_at) ==
    [title |-> title, status |-> status, created_at |-> created_at,
     completed_at |-> completed_at]

\* date_str.replace("Z", "+00:00")
ReplaceZ(suffix) == IF suffix = "Z" THEN "+00:00" ELSE suffix

\* datetime.fromisoformat(...).date(): ok is FALSE where it raises ValueError
FromIsoFormatDate(ts) ==
    IF ts.kind = "iso" /\ ReplaceZ(ts.suffix) \in {"", "+00:00"}
    THEN [ok |-> TRUE, date |-> ts.day]
    ELSE [ok |-> FALSE, date |-> 0]

\* ExecutionAgent._is_today
ExecutionAgent_is_today(date_str, now) ==
    /\ date_str.kind # "none"
    /\ FromIsoFormatDate(date_str).ok
    /\ FromIsoFormatDate(date_str).date = now

\* while current_date in dates_with_completions: streak += 1; current_date -= 1 day
RECURSIVE CountBack(_, _)
CountBack(dates, current_date) ==
    IF current_date \in dates THEN 1 + CountBack(dates, current_date - 1) ELSE 0

\* a streak that takes every record with a completion timestamp, whatever its status
ExecutionAgent_calculate_streak_AnyStatus(task_history, now) ==
    LET completed == {i \in 1..Len(task_history) :
                         task_history[i].completed_at.kind # "none"}
        dates_with_completions ==
            {FromIsoFormatDate(task_history[i].completed_at).date :
                i \in {j \in completed :
                          FromIsoFormatDate(task_history[j].completed_at).ok}}
    IN  IF Len(task_history) = 0 THEN 0
        ELSE IF completed = {} THEN 0
        ELSE CountBack(dates_with_completions, now)

\* ExecutionAgent._calculate_streak
ExecutionAgent_calculate_streak(task_history, now) ==
    LET completed == {i \in 1..Len(task_history) :
                         /\ task_history[i].status = "completed"
                         /\ task_history[i].completed_at.kind # "none"}
        dates_with_completions ==
            {FromIsoFormatDate(task_history[i].completed_at).date :
                i \in {j \in completed :
                          FromIsoFormatDate(task_history[j].completed_at).ok}}
    IN  IF Len(task_history) = 0 THEN 0
        ELSE IF completed = {} THEN 0
        ELSE CountBack(dates_with_completions, now)

\* [t for t in task_history if self._is_today(t.get("created_at"))]
RECURSIVE TodayTasks(_, _)
TodayTasks(task_history, now) ==
    IF Len(task_history) = 0 THEN <<>>
    ELSE IF ExecutionAgent_is_today(Head(task_history).created_at, now)
    THEN <<Head(task_history)>> \o TodayTasks(Tail(task_history), now)
    ELSE TodayTasks(Tail(task_history), now)

\* the titles of the tasks that are not completed, in order
RECURSIVE OpenTitles(_)
OpenTitles(tasks) ==
    IF Len(tasks) = 0 THEN <<>>
    ELSE IF Head(tasks).status # "completed"
    THEN <<Head(tasks).title>> \o OpenTitles(Tail(tasks))
    ELSE OpenTitles(Tail(tasks))

CountCompleted(tasks) ==
    Cardinality({i \in 1..Len(tasks) : tasks[i].status = "completed"})

\* round(completed / total, 2) in hundredths, ties to the even hundredth
RoundedRate(completed, total) ==
    IF total = 0 THEN 0
    ELSE LET q == (100 * completed) \div total
             r == (100 * completed) % total
         IN  IF 2 * r < total THEN q
             ELSE IF 2 * r > total THEN q + 1
             ELSE IF q % 2 = 0 THEN q ELSE q + 1

\* s[:n]
Prefix(s, n) == SubSeq(s, 1, IF Len(s) < n THEN Len(s) ELSE n)

MaxNextActions == 3

\* a daily summary over every task of the history, created today or not
ExecutionAgent_generate_daily_summary_AllTasks(ctx, now) ==
    LET today_tasks == ctx.task_history
        total       == Len(today_tasks)
        completed   == CountCompleted(today_tasks)
        pending     == total - completed
        streak      == ExecutionAgent_calculate_streak(ctx.task_history, now)
        reduce      == IF 10 * completed < 6 * total /\ total > 2
                       THEN <<"Consider reducing daily tasks to 2 for better consistency">>
                       ELSE <<>>
        stretch     == IF total > 0 /\ 10 * completed > 9 * total
                       THEN <<"Great progress! Ready for a stretch goal?">> ELSE <<>>
        motivational ==
            IF total > 0 /\ 10 * completed >= 8 * total
            THEN "You're crushing it! Keep up the amazing work!"
            ELSE IF total > 0 /\ 2 * completed >= total
            THEN "Good progress! Let's finish strong today."
            ELSE "Every step counts. What's one thing you can do right now?"
        output ==
            [schema |-> "ExecutionOutput",
             daily_summary |-> [tasks_completed |-> completed,
                                tasks_pending |-> pending,
                                streak_count |-> streak,
                                completion_rate |-> RoundedRate(completed, total)],
             adjustments_recommended |-> reduce \o stretch,
             next_actions |-> Prefix(OpenTitles(today_tasks), MaxNextActions),
             motivational_message |-> motivational]
    IN  create_response("execution", TRUE,
            <<"## Daily Progress", motivational>>, output, FALSE, "none")

\* ExecutionAgent._generate_daily_summary; the rate tests are on completed/total
ExecutionAgent_generate_daily_summary(ctx, now) ==
    LET today_tasks == TodayTasks(ctx.task_history, now)
        total       == Len(today_tasks)
        completed   == CountCompleted(today_tasks)
        pending     == total - completed
        streak      == ExecutionAgent_calculate_streak(ctx.task_history, now)
        reduce      == IF 10 * completed < 6 * total /\ total > 2
                       THEN <<"Consider reducing daily tasks to 2 for better consistency">>
                       ELSE <<>>
        stretch     == IF total > 0 /\ 10 * completed > 9 * total
                       THEN <<"Great progress! Ready for a stretch goal?">> ELSE <<>>
        motivational ==
            IF total > 0 /\ 10 * completed >= 8 * total
            THEN "You're crushing it! Keep up the amazing work!"
            ELSE IF total > 0 /\ 2 * completed >= total
            THEN "Good progress! Let's finish strong today."
            ELSE "Every step counts. What's one thing you can do right now?"
        output ==
            [schema |-> "ExecutionOutput",
             daily_summary |-> [tasks_completed |-> completed,
                                tasks_pending |-> pending,
                                streak_count |-> streak,
                                completion_rate |-> RoundedRate(completed, total)],
             adjustments_recommended |-> reduce \o stretch,
             next_actions |-> Prefix(OpenTitles(today_tasks), MaxNextActions),
             motivational_message |-> motivational]
    IN  create_response("execution", TRUE,
            <<"## Daily Progress", motivational>>, output, FALSE, "none")

CelebrationPool ==
    <<"Task completed! Great job!", "day streak! You're on fire!",
      "Another one done! Keep the momentum going!",
      "Excellent work! Every task brings you closer.">>

WeekLength == 7

\* a completion handler whose bonus test leaves out "streak > 0"
ExecutionAgent_handle_task_completion_BonusAtZero(ctx, now, choice) ==
    LET streak == ExecutionAgent_calculate_streak(ctx.task_history, now)
        bonus  == IF streak % WeekLength = 0
                  THEN <<"Wow! A full week streak!">> ELSE <<>>
    IN  create_response("execution", TRUE, <<CelebrationPool[choice]>> \o bonus,
            [schema |-> "task_complete", streak_count |-> streak,
             action |-> "completed"],
            FALSE, "none")

\* ExecutionAgent._handle_task_completion; choice is what random.choice picks
ExecutionAgent_handle_task_completion(ctx, now, choice) ==
    LET streak == ExecutionAgent_calculate_streak(ctx.task_history, now)
        bonus  == IF streak > 0 /\ streak % WeekLength = 0
                  THEN <<"Wow! A full week streak!">> ELSE <<>>
    IN  create_response("execution", TRUE, <<CelebrationPool[choice]>> \o bonus,
            [schema |-> "task_complete", streak_count |-> streak,
             action |-> "completed"],
            FALSE, "none")

CheckinFailureMessage ==
    <<"How is your progress going today? Any blockers I can help with?">>

\* ExecutionAgent._generate_checkin_response
ExecutionAgent_generate_checkin_response(ctx, cmpl) ==
    LET r == generate_response(cmpl)
    IN  IF r.exc = ""
        THEN create_response("execution", TRUE, r.text,
                 [schema |-> "checkin", type |-> "checkin"], TRUE, "none")
        ELSE create_response("execution", FALSE, CheckinFailureMessage,
                 NoData, FALSE, "none")

\* an Execution agent that hints back at the Foundation agent
ExecutionAgent_process_HintsFoundation(ctx, cmpl, now, choice) ==
    create_response("execution", TRUE, <<"Tip">>, NoData, FALSE, "foundation")

\* ExecutionAgent.process
ExecutionAgent_process(ctx, cmpl, now, choice) ==
    LET request_type == IF ctx.additional_context.kind = "dict"
                        THEN ctx.additional_context.request_type ELSE "<absent>"
    IN  IF request_type = "daily_summary"
        THEN ExecutionAgent_generate_daily_summary(ctx, now)
        ELSE IF request_type = "task_complete"
        THEN ExecutionAgent_handle_task_completion(ctx, now, choice)
        ELSE ExecutionAgent_generate_checkin_response(ctx, cmpl)

(***************************************************************************)
(* Psychological agent.                                                    *)
(***************************************************************************)
\* low_motivation
LowMotivationWords ==
    << <<"c","a","n","'","t">>,
       <<"w","o","n","'","t">>,
       <<"t","i","r","e","d">>,
       <<"e","x","h","a","u","s","t","e","d">>,
       <<"g","i","v","i","n","g"," ","u","p">>,
       <<"q","u","i","t">> >>

\* high_motivation
HighMotivationWords ==
    << <<"e","x","c","i","t","e","d">>,
       <<"e","a","g","e","r">>,
       <<"r","e","a","d","y">>,
       <<"m","o","t","i","v","a","t","e","d">>,
       <<"p","u","m","p","e","d">> >>

\* stress_words
StressWords ==
    << <<"s","t","r","e","s","s","e","d">>,
       <<"a","n","x","i","o","u","s">>,
       <<"o","v","e","r","w","h","e","l","m","e","d">>,
       <<"p","a","n","i","c">>,
       <<"w","o","r","r","i","e","d">> >>

\* low_confidence
LowConfidenceWords ==
    << <<"s","t","u","p","i","d">>,
       <<"c","a","n","'","t"," ","d","o">>,
       <<"n","o","t"," ","g","o","o","d"," ","e","n","o","u","g","h">>,
       <<"f","a","i","l","u","r","e">>,
       <<"i","m","p","o","s","t","e","r">> >>

\* high_confidence
HighConfidenceWords ==
    << <<"c","o","n","f","i","d","e","n","t">>,
       <<"c","a","p","a","b","l","e">>,
       <<"p","r","o","u","d">>,
       <<"a","c","h","i","e","v","e","d">>,
       <<"s","u","c","c","e","e","d","e","d">> >>

\* the number of the words that occur in the text, each counted once
CountWordsIn(text, wordlist) ==
    Cardinality({w \in 1..Len(wordlist) : Contains(text, wordlist[w])})

\* msg.get("content", "").lower() for the user turns, in order
UserContentsLowered(messages) ==
    LET u == UserContents(messages) IN [i \in 1..Len(u) |-> Lower(u[i])]

MinLevel == 1
MaxLevel == 10
BaseLevel == 5
MaxDetectedPatterns == 3

\* max(1, min(10, v))
ClampLevel(v) ==
    IF v > MaxLevel THEN MaxLevel ELSE IF v < MinLevel THEN MinLevel ELSE v

\* the pattern names in the order the tests append them
DetectedPatterns(all_text) ==
    (IF Contains(all_text, <<"a","l","w","a","y","s">>) \/ Contains(all_text, <<"n","e","v","e","r">>)
     THEN <<"All-or-nothing thinking">> ELSE <<>>)
    \o (IF Contains(all_text, <<"s","h","o","u","l","d">>) \/ Contains(all_text, <<"m","u","s","t">>)
        THEN <<"Should statements">> ELSE <<>>)
    \o (IF Contains(all_text, <<"w","o","r","s","t">>) \/ Contains(all_text, <<"t","e","r","r","i","b","l","e">>)
        THEN <<"Catastrophizing">> ELSE <<>>)
    \o (IF Contains(all_text, <<"m","y"," ","f","a","u","l","t">>) \/ Contains(all_text, <<"b","l","a","m","e"," ","m","y","s","e","l","f">>)
        THEN <<"Personalization">> ELSE <<>>)

EmotionalAssessment(motivation_level, stress_level, confidence_level, detected_patterns) ==
    [motivation_level |-> motivation_level, stress_level |-> stress_level,
     confidence_level |-> confidence_level, detected_patterns |-> detected_patterns]

\* an assessment that returns the raw tallies
PsychologicalAgent_assess_emotional_state_Unclamped(ctx) ==
    LET all_text == Join(UserContentsLowered(ctx.messages), <<" ">>)
    IN  IF Len(ctx.messages) = 0
        THEN EmotionalAssessment(BaseLevel, BaseLevel, BaseLevel, <<>>)
        ELSE EmotionalAssessment(
                 BaseLevel - CountWordsIn(all_text, LowMotivationWords)
                           + CountWordsIn(all_text, HighMotivationWords),
                 BaseLevel + CountWordsIn(all_text, StressWords),
                 BaseLevel - CountWordsIn(all_text, LowConfidenceWords)
                           + CountWordsIn(all_text, HighConfidenceWords),
                 DetectedPatterns(all_text))

\* PsychologicalAgent._assess_emotional_state
PsychologicalAgent_assess_emotional_state(ctx) ==
    LET all_text == Join(UserContentsLowered(ctx.messages), <<" ">>)
    IN  IF Len(ctx.messages) = 0
        THEN EmotionalAssessment(BaseLevel, BaseLevel, BaseLevel, <<>>)
        ELSE EmotionalAssessment(
                 ClampLevel(BaseLevel - CountWordsIn(all_text, LowMotivationWords)
                                      + CountWordsIn(all_text, HighMotivationWords)),
                 ClampLevel(BaseLevel + CountWordsIn(all_text, StressWords)),
                 ClampLevel(BaseLevel - CountWordsIn(all_text, LowConfidenceWords)
                                      + CountWordsIn(all_text, HighConfidenceWords)),
                 Prefix(DetectedPatterns(all_text), MaxDetectedPatterns))

NoIntervention == [type |-> "none", technique |-> "", message |-> <<>>, exercises |-> <<>>]

Intervention(type, technique, message, exercises) ==
    [type |-> type, technique |-> technique, message |-> message,
     exercises |-> exercises]

\* _create_stress_intervention
CreateStressIntervention ==
    Intervention("STRESS_MANAGEMENT", "4-7-8 Breathing",
        <<"I notice you might be feeling stressed. Let's take a moment to breathe.">>,
        <<"Breathe in through your nose for 4 counts">>)

\* _create_motivation_intervention
CreateMotivationIntervention ==
    Intervention("MOTIVATION_BOOST", "2-Minute Rule",
        <<"Feeling unmotivated? Let's use a proven technique to get started.">>,
        <<"Pick the smallest possible version of your task">>)

\* _create_confidence_intervention
CreateConfidenceIntervention ==
    Intervention("CONFIDENCE_BUILDING", "Past Wins Reflection",
        <<"Let's remind ourselves of what you've already accomplished.">>,
        <<"Think of 3 challenges you've overcome before">>)

\* reframes.get(pattern, "Consider an alternative perspective")
Reframe(pattern) ==
    CASE pattern = "All-or-nothing thinking" ->
             "Replace 'always/never' with 'sometimes/often'. Progress isn't all-or-nothing."
      [] pattern = "Should statements" ->
             "Replace 'should' with 'could' or 'want to'. You have choices, not obligations."
      [] pattern = "Catastrophizing" ->
             "Ask: What's the realistic worst case? Usually it's more manageable than we fear."
      [] pattern = "Personalization" ->
             "Remember: Many factors affect outcomes. Not everything is within your control."
      [] OTHER -> "Consider an alternative perspective"

\* _create_reframing_intervention
CreateReframingIntervention(pattern) ==
    Intervention("COGNITIVE_REFRAMING", "Thought Challenging",
        <<"I noticed a pattern: ", pattern, ". Let's reframe this.">>,
        <<Reframe(pattern), "Write down the thought">>)

\* _create_general_support
CreateGeneralSupport ==
    Intervention("GENERAL_SUPPORT", "Self-Compassion",
        <<"Remember to be kind to yourself on this journey.">>,
        <<"Acknowledge that this is challenging">>)

\* PsychologicalAgent._generate_affirmations
GenerateAffirmations(assessment) ==
    LET picked ==
            (IF assessment.motivation_level < BaseLevel
             THEN <<"Your small efforts today create big results tomorrow.">> ELSE <<>>)
            \o (IF assessment.stress_level > BaseLevel
                THEN <<"You are capable of handling whatever comes your way.">> ELSE <<>>)
            \o (IF assessment.confidence_level < BaseLevel
                THEN <<"You have already proven you can do hard things.">> ELSE <<>>)
    IN  IF picked = <<>>
        THEN <<"You are making progress, even when it doesn't feel like it.">>
        ELSE picked

PsychologicalOutput(assessment, intervention, affirmations, progress_celebration) ==
    [schema |-> "PsychologicalOutput", emotional_assessment |-> assessment,
     intervention |-> intervention, affirmations |-> affirmations,
     progress_celebration |-> progress_celebration]

\* the selection of _provide_intervention, by the order of its tests
SelectIntervention(assessment) ==
    IF assessment.stress_level > 7 THEN CreateStressIntervention
    ELSE IF assessment.motivation_level < 4 THEN CreateMotivationIntervention
    ELSE IF assessment.confidence_level < 4 THEN CreateConfidenceIntervention
    ELSE IF Len(assessment.detected_patterns) > 0
    THEN CreateReframingIntervention(assessment.detected_patterns[1])
    ELSE CreateGeneralSupport

\* a selection that tests motivation before stress
PsychologicalAgent_provide_intervention_MotivationFirst(ctx, assessment) ==
    LET intervention ==
            IF assessment.motivation_level < 4 THEN CreateMotivationIntervention
            ELSE SelectIntervention(assessment)
        completed == CountCompleted(ctx.task_history)
        output == PsychologicalOutput(assessment, intervention,
                      GenerateAffirmations(assessment),
                      IF completed > 0 THEN <<"Remember: You've already completed ",
                                              completed, " tasks.">>
                      ELSE <<>>)
    IN  create_response("psychological", TRUE,
            <<"## Mindset Check-In", intervention.technique>> \o intervention.message,
            output, FALSE, "none")

\* PsychologicalAgent._provide_intervention
PsychologicalAgent_provide_intervention(ctx, assessment) ==
    LET intervention == SelectIntervention(assessment)
        completed == CountCompleted(ctx.task_history)
        output == PsychologicalOutput(assessment, intervention,
                      GenerateAffirmations(assessment),
                      IF completed > 0 THEN <<"Remember: You've already completed ",
                                              completed, " tasks.">>
                      ELSE <<>>)
    IN  create_response("psychological", TRUE,
            <<"## Mindset Check-In", intervention.technique>> \o intervention.message,
            output, FALSE, "none")

EncouragementFallbackMessage ==
    <<"You're doing great! Even small steps count. Keep going!">>

\* PsychologicalAgent._provide_encouragement
PsychologicalAgent_provide_encouragement(ctx, assessment, cmpl) ==
    LET r == generate_response(cmpl)
        message == IF r.exc = "" THEN r.text ELSE EncouragementFallbackMessage
    IN  create_response("psychological", TRUE, message,
            PsychologicalOutput(assessment, NoIntervention, <<>>,
                                <<"Keep moving forward!">>),
            FALSE, "none")

\* a test that sends a level of 4 to the intervention path as well
NeedsIntervention_BelowFive(assessment) ==
    \/ assessment.motivation_level < 5
    \/ assessment.stress_level > 7
    \/ assessment.confidence_level < 5
    \/ Len(assessment.detected_patterns) > 0

\* needs_intervention in PsychologicalAgent.process
NeedsIntervention(assessment) ==
    \/ assessment.motivation_level < 4
    \/ assessment.stress_level > 7
    \/ assessment.confidence_level < 4
    \/ Len(assessment.detected_patterns) > 0

\* a process that leaves the detected patterns out of the test
PsychologicalAgent_process_LevelsOnly(ctx, cmpl) ==
    LET assessment == PsychologicalAgent_assess_emotional_state(ctx)
    IN  IF \/ assessment.motivation_level < 4
           \/ assessment.stress_level > 7
           \/ assessment.confidence_level < 4
        THEN PsychologicalAgent_provide_intervention(ctx, assessment)
        ELSE PsychologicalAgent_provide_encouragement(ctx, assessment, cmpl)

\* PsychologicalAgent.process; .lower() of a user turn whose content is None
\* raises in _assess_emotional_state
PsychologicalAgent_process(ctx, cmpl) ==
    LET assessment == PsychologicalAgent_assess_emotional_state(ctx)
    IN  IF UserContentIsNull(ctx.messages) THEN Raised("AttributeError")
        ELSE IF NeedsIntervention(assessment)
        THEN PsychologicalAgent_provide_intervention(ctx, assessment)
        ELSE PsychologicalAgent_provide_encouragement(ctx, assessment, cmpl)

(***************************************************************************)
(* Sustainability agent.                                                   *)
(*                                                                         *)
(* The score is computed in binary floating point.  A double of the sizes  *)
(* met here (0 or 2^-2 <= x < 2^7) is an integer count of units of 2^-54,  *)
(* held in three limbs of 21 bits, least significant first, with at most   *)
(* 53 significant bits.                                                    *)
(***************************************************************************)
LimbBase == 2097152

\* the double nearest to 0.6, 0x3FE3333333333333, and to 0.4, 0x3FD999999999999A
HabitWeight == <<419430, 1258291, 2457>>
BurnoutWeight == <<1677722, 838860, 1638>>

RECURSIVE Pow2(_)
Pow2(n) == IF n = 0 THEN 1 ELSE 2 * Pow2(n - 1)

RECURSIVE BitLength(_)
BitLength(n) == IF n = 0 THEN 0 ELSE 1 + BitLength(n \div 2)

\* carries moved up so that the two low limbs are below the base
CarryLimbs(a) ==
    LET t1 == a[2] + a[1] \div LimbBase
    IN  <<a[1] % LimbBase, t1 % LimbBase, a[3] + t1 \div LimbBase>>

\* round to nearest, ties to even, at 53 significant bits
RoundToDouble(a) ==
    LET len  == IF a[3] > 0 THEN 42 + BitLength(a[3])
                ELSE IF a[2] > 0 THEN 21 + BitLength(a[2]) ELSE BitLength(a[1])
        drop == IF len > 53 THEN len - 53 ELSE 0
        unit == Pow2(drop)
        q    == a[1] \div unit
        r    == a[1] % unit
        up   == 2 * r > unit \/ (2 * r = unit /\ q % 2 = 1)
    IN  IF drop = 0 THEN a
        ELSE CarryLimbs(<<(IF up THEN q + 1 ELSE q) * unit, a[2], a[3]>>)

\* n * w for an int n and a double w
FloatTimesInt(w, n) == RoundToDouble(CarryLimbs(<<w[1] * n, w[2] * n, w[3] * n>>))

\* x + y for two doubles
FloatPlus(x, y) == RoundToDouble(CarryLimbs(<<x[1] + y[1], x[2] + y[2], x[3] + y[3]>>))

\* int(x) for a double x >= 0: the units of 2^-54 above bit 54
FloatToInt(x) == x[3] \div 4096

MaxScore == 100

\* SustainabilityAgent._calculate_sustainability_score
SustainabilityAgent_calculate_sustainability_score(habit_score, burnout_score) ==
    LET habit_weight   == FloatTimesInt(HabitWeight, habit_score)
        burnout_weight == FloatTimesInt(BurnoutWeight, MaxScore - burnout_score)
    IN  FloatToInt(FloatPlus(habit_weight, burnout_weight))

\* HabitAnalysis(...)
HabitAnalysis(habit_score, days_consistent, habit_loops) ==
    [habit_score |-> habit_score, days_consistent |-> days_consistent,
     habit_loops |-> habit_loops]

HabitLoop(title) ==
    [cue |-> <<"Scheduled time for ", title>>, routine |-> title,
     reward |-> "Mark complete and see streak grow"]

\* the keys of recurring_tasks in the order they were first seen
RECURSIVE TitlesInOrder(_, _)
TitlesInOrder(task_history, seen) ==
    IF Len(task_history) = 0 THEN <<>>
    ELSE LET title == Head(task_history).title
         IN  IF title = "" \/ title \in seen
             THEN TitlesInOrder(Tail(task_history), seen)
             ELSE <<title>> \o TitlesInOrder(Tail(task_history), seen \cup {title})

CompletedWithTitle(task_history, title) ==
    Cardinality({i \in 1..Len(task_history) :
        task_history[i].title = title /\ task_history[i].status = "completed"})

MinHabitCompletions == 7
HabitHorizonDays == 90
MaxHabitLoops == 3

\* the titles with at least a week of completions, in order
RECURSIVE HabitTitles(_, _)
HabitTitles(titles, task_history) ==
    IF Len(titles) = 0 THEN <<>>
    ELSE IF CompletedWithTitle(task_history, Head(titles)) >= MinHabitCompletions
    THEN <<Head(titles)>> \o HabitTitles(Tail(titles), task_history)
    ELSE HabitTitles(Tail(titles), task_history)

\* max over the habit titles of their completed count, 0 for none
RECURSIVE MaxCompleted(_, _)
MaxCompleted(titles, task_history) ==
    IF Len(titles) = 0 THEN 0
    ELSE LET here == CompletedWithTitle(task_history, Head(titles))
             rest == MaxCompleted(Tail(titles), task_history)
         IN  IF here > rest THEN here ELSE rest

\* SustainabilityAgent._analyze_habits; int((d / 90) * 100) is the whole part
\* of 100 d / 90
SustainabilityAgent_analyze_habits(task_history) ==
    IF Len(task_history) = 0 THEN HabitAnalysis(0, 0, <<>>)
    ELSE
      LET habits == HabitTitles(TitlesInOrder(task_history, {}), task_history)
          days_consistent == MaxCompleted(habits, task_history)
          raw == (days_consistent * 100) \div HabitHorizonDays
      IN  HabitAnalysis(IF raw > MaxScore THEN MaxScore ELSE raw, days_consistent,
              Prefix([i \in 1..Len(habits) |-> HabitLoop(habits[i])], MaxHabitLoops))

\* dt.strftime("%A") of a day number; day 0 is a Sunday
Weekdays ==
    <<"Sunday", "Monday", "Tuesday", "Wednesday", "Thursday", "Friday", "Saturday">>

WeekdayOf(ts) == Weekdays[(ts.day % WeekLength) + 1]

\* dt.hour; a timestamp that names no time of day is at midnight
HourOf(ts) == IF "hour" \in DOMAIN ts THEN ts.hour ELSE 0

TimeOfDay(ts) ==
    IF HourOf(ts) < 12 THEN "Morning"
    ELSE IF HourOf(ts) < 17 THEN "Afternoon" ELSE "Evening"

\* the records whose completed_at parses
Timed(task_history) ==
    {i \in 1..Len(task_history) :
        /\ task_history[i].completed_at.kind # "none"
        /\ FromIsoFormatDate(task_history[i].completed_at).ok}

\* the key a timestamp is counted under in day_performance ("day") or in
\* time_performance ("time")
CounterKey(counter, ts) == IF counter = "day" THEN WeekdayOf(ts) ELSE TimeOfDay(ts)

\* the keys of a Counter in the order they were first counted
RECURSIVE KeysInOrder(_, _, _, _)
KeysInOrder(task_history, idx, counter, seen) ==
    IF idx > Len(task_history) THEN <<>>
    ELSE IF idx \notin Timed(task_history)
    THEN KeysInOrder(task_history, idx + 1, counter, seen)
    ELSE LET k == CounterKey(counter, task_history[idx].completed_at)
         IN  IF k \in seen THEN KeysInOrder(task_history, idx + 1, counter, seen)
             ELSE <<k>> \o KeysInOrder(task_history, idx + 1, counter, seen \cup {k})

CountOfKey(task_history, counter, k) ==
    Cardinality({i \in Timed(task_history) :
        CounterKey(counter, task_history[i].completed_at) = k})

\* Counter.most_common(n): by count, the earlier key first among equals
RECURSIVE MostCommon(_, _, _, _)
MostCommon(keys, task_history, counter, n) ==
    IF n = 0 \/ Len(keys) = 0 THEN <<>>
    ELSE
      LET best == CHOOSE i \in 1..Len(keys) :
                      /\ \A j \in 1..Len(keys) :
                            CountOfKey(task_history, counter, keys[j])
                                <= CountOfKey(task_history, counter, keys[i])
                      /\ \A j \in 1..(i - 1) :
                            CountOfKey(task_history, counter, keys[j])
                                < CountOfKey(task_history, counter, keys[i])
          rest == [j \in 1..(Len(keys) - 1) |->
                      IF j < best THEN keys[j] ELSE keys[j + 1]]
      IN  <<keys[best]>> \o MostCommon(rest, task_history, counter, n - 1)

PatternInsights(best_days, best_times, failure_patterns) ==
    [best_days |-> best_days, best_times |-> best_times,
     failure_patterns |-> failure_patterns]

MaxBestDays == 3
MaxBestTimes == 2

\* SustainabilityAgent._detect_patterns
SustainabilityAgent_detect_patterns(task_history) ==
    IF Len(task_history) = 0 THEN PatternInsights(<<>>, <<>>, <<>>)
    ELSE
      LET day_keys  == KeysInOrder(task_history, 1, "day", {})
          time_keys == KeysInOrder(task_history, 1, "time", {})
          best_days  == MostCommon(day_keys, task_history, "day", MaxBestDays)
          best_times == MostCommon(time_keys, task_history, "time", MaxBestTimes)
          skipped == \E i \in 1..Len(task_history) :
                         /\ task_history[i].completed_at.kind = "none"
                         /\ task_history[i].status = "skipped"
          failure_reasons == IF skipped THEN <<"Task skipped">> ELSE <<>>
          inconsistent ==
              IF Len(best_days) = 0 \/ Len(day_keys) < Len(best_days)
              THEN <<"Inconsistent daily routine">> ELSE <<>>
      IN  PatternInsights(best_days, best_times, failure_reasons \o inconsistent)

\* stress_words of _assess_burnout
BurnoutStressWords ==
    << <<"s","t","r","e","s","s","e","d">>,
       <<"o","v","e","r","w","h","e","l","m","e","d">>,
       <<"t","i","r","e","d">>,
       <<"e","x","h","a","u","s","t","e","d">>,
       <<"c","a","n","'","t">>,
       <<"f","a","i","l","i","n","g">> >>

\* s[-n:]
Suffix(s, n) == SubSeq(s, IF Len(s) > n THEN Len(s) - n + 1 ELSE 1, Len(s))

BurnoutWindow == 7
BurnoutBase == 50
RecentMessages == 5

\* a content of None among the last five messages: .lower() raises
BurnoutRaises(messages) ==
    \E i \in 1..Len(Suffix(messages, RecentMessages)) :
        Suffix(messages, RecentMessages)[i].content_kind = "null"

\* SustainabilityAgent._assess_burnout: the score; rates are compared as
\* fractions, recent_rate < older_rate - 0.15 being
\* 20 rc ol < 20 oc rl - 3 rl ol
BurnoutScore(ctx) ==
    LET h      == ctx.task_history
        recent == IF Len(h) > BurnoutWindow THEN Suffix(h, BurnoutWindow) ELSE h
        older  == IF Len(h) > 2 * BurnoutWindow
                  THEN SubSeq(h, Len(h) - 2 * BurnoutWindow + 1, Len(h) - BurnoutWindow)
                  ELSE <<>>
        rc == CountCompleted(recent)
        rl == Len(recent)
        oc == IF Len(older) > 0 THEN CountCompleted(older) ELSE rc
        ol == IF Len(older) > 0 THEN Len(older) ELSE rl
        trend == IF Len(h) = 0 THEN 0
                 ELSE IF 20 * rc * ol < 20 * oc * rl - 3 * rl * ol THEN 20
                 ELSE IF rc * ol > oc * rl THEN -10
                 ELSE 0
        last == Suffix(ctx.messages, RecentMessages)
        stressed == \E i \in 1..Len(last) :
                        AnyWordIn(Lower(last[i].content), BurnoutStressWords)
        raw == BurnoutBase + trend + (IF stressed THEN 15 ELSE 0)
    IN  IF raw > MaxScore THEN MaxScore ELSE IF raw < 0 THEN 0 ELSE raw

\* MEDIUM only above 40
BurnoutRisk_MediumAboveForty(burnout_score) ==
    IF burnout_score >= 70 THEN "HIGH"
    ELSE IF burnout_score > 40 THEN "MEDIUM" ELSE "LOW"

\* the risk label of _assess_burnout
BurnoutRisk(burnout_score) ==
    IF burnout_score >= 70 THEN "HIGH"
    ELSE IF burnout_score >= 40 THEN "MEDIUM" ELSE "LOW"

MaxRecommendations == 4

\* best_time.lower()
LowerTimeOfDay(t) ==
    IF t = "Morning" THEN "morning"
    ELSE IF t = "Afternoon" THEN "afternoon" ELSE "evening"

\* SustainabilityAgent._generate_recommendations
SustainabilityAgent_generate_recommendations(habit_analysis, pattern_insights, burnout_risk) ==
    LET habit ==
            IF habit_analysis.habit_score < 30
            THEN << <<"Focus on building one consistent daily habit before adding more">> >>
            ELSE IF habit_analysis.habit_score < 60
            THEN << <<"You're building momentum! Add a small reward after completing tasks">> >>
            ELSE <<>>
        times ==
            IF Len(pattern_insights.best_times) > 0
            THEN << <<"Your ", LowerTimeOfDay(pattern_insights.best_times[1]),
                       " sessions are most productive - schedule important tasks then">> >>
            ELSE <<>>
        burnout ==
            IF burnout_risk = "HIGH"
            THEN << <<"Take a strategic rest day - sustainable progress beats burnout">>,
                    <<"Consider reducing daily tasks by 30% this week">> >>
            ELSE IF burnout_risk = "MEDIUM"
            THEN << <<"Build in buffer time between tasks to prevent overwhelm">> >>
            ELSE <<>>
    IN  Prefix(habit \o times \o burnout, MaxRecommendations)

SustainabilityOutput(habit_analysis, pattern_insights, sustainability_score,
                     burnout_risk, recommendations) ==
    [schema |-> "SustainabilityOutput", habit_analysis |-> habit_analysis,
     pattern_insights |-> pattern_insights,
     sustainability_score |-> sustainability_score,
     burnout_risk |-> burnout_risk, recommendations |-> recommendations]

\* SustainabilityAgent._analyze_sustainability
SustainabilityAgent_analyze_sustainability(ctx) ==
    IF BurnoutRaises(ctx.messages) THEN Raised("AttributeError")
    ELSE
      LET habit_analysis   == SustainabilityAgent_analyze_habits(ctx.task_history)
          pattern_insights == SustainabilityAgent_detect_patterns(ctx.task_history)
          burnout_score    == BurnoutScore(ctx)
          burnout_risk     == BurnoutRisk(burnout_score)
          score == SustainabilityAgent_calculate_sustainability_score(
                       habit_analysis.habit_score, burnout_score)
          output == SustainabilityOutput(habit_analysis, pattern_insights, score,
                        burnout_risk,
                        SustainabilityAgent_generate_recommendations(
                            habit_analysis, pattern_insights, burnout_risk))
      IN  create_response("sustainability", TRUE,
              <<"## Sustainability Analysis", burnout_risk>>
                  \o pattern_insights.best_days \o pattern_insights.best_times, output,
              FALSE, "none")

\* SustainabilityAgent.process
SustainabilityAgent_process(ctx) == SustainabilityAgent_analyze_sustainability(ctx)

(***************************************************************************)
(* Users and the token quota.  A row of the users table has the columns    *)
(* the quota and admin code reads and writes; quota_reset_at is the set of *)
(* at most one day number, empty for None.  A request works on the table   *)
(* through its own session, which keeps the row it loaded until a commit   *)
(* expires it (where the session is set to expire on commit) and writes    *)
(* back only the columns it changed.                                       *)
(***************************************************************************)
DEFAULT_USER_QUOTA == 100000
QUOTA_RESET_DAYS == 30
DefaultTokensUsed == 0

User(email, is_active, is_superuser, token_limit, tokens_used, quota_reset_at) ==
    [email |-> email, is_active |-> is_active, is_superuser |-> is_superuser,
     token_limit |-> token_limit, tokens_used |-> tokens_used,
     quota_reset_at |-> quota_reset_at]

\* User.reset_quota_if_needed: the row afterwards, and what it returns
User_reset_quota_if_needed(user, now) ==
    IF \E at \in user.quota_reset_at : now >= at
    THEN [user |-> [user EXCEPT !.tokens_used = 0, !.quota_reset_at = {}],
          reset |-> TRUE]
    ELSE [user |-> user, reset |-> FALSE]

\* User.has_quota_remaining
User_has_quota_remaining(user, required_tokens, now) ==
    LET self == User_reset_quota_if_needed(user, now).user
    IN  self.tokens_used + required_tokens <= self.token_limit

\* a session that has loaded nothing
NewSession(expire_on_commit) ==
    [expire_on_commit |-> expire_on_commit, loaded |-> FALSE,
     user |-> User("", FALSE, FALSE, 0, 0, {}), dirty |-> {}]

\* db.get(User, user_id): the row the session holds, else the row of the table
SessionGet(session, row) == IF session.loaded THEN session.user ELSE row

\* the session once it holds the row db.get returned
SessionLoaded(session, row) ==
    [session EXCEPT !.loaded = TRUE, !.user = SessionGet(session, row)]

\* an assignment to a column of the loaded object
SessionSet(session, column, value) ==
    [session EXCEPT !.user = [session.user EXCEPT ![column] = value],
                    !.dirty = session.dirty \cup {column}]

\* the UPDATE a flush emits: the changed columns, with the values the session holds
FlushedRow(session, row) ==
    [column \in DOMAIN row |->
        IF column \in session.dirty THEN session.user[column] ELSE row[column]]

\* db.commit(): nothing is dirty afterwards, and the object is expired where
\* the session expires on commit
Committed(session) ==
    [session EXCEPT !.dirty = {},
                    !.loaded = session.loaded /\ ~session.expire_on_commit]

\* set_quota_reset_date: the session and the row afterwards
set_quota_reset_date(session, row, now) ==
    LET got == SessionLoaded(session, row)
    IN  IF got.user.quota_reset_at = {}
        THEN LET changed == SessionSet(got, "quota_reset_at", {now + QUOTA_RESET_DAYS})
             IN  [session |-> Committed(changed), row |-> FlushedRow(changed, row)]
        ELSE [session |-> got, row |-> row]

\* update_token_usage_atomic: the session and the row after the flush
update_token_usage_atomic(session, row, tokens_used) ==
    LET got     == SessionLoaded(session, row)
        changed == SessionSet(got, "tokens_used", got.user.tokens_used + tokens_used)
    IN  [session |-> [changed EXCEPT !.dirty = {}], row |-> FlushedRow(changed, row)]

\* track_openai_usage
track_openai_usage(session, row, total_tokens, now) ==
    LET dated == set_quota_reset_date(session, row, now)
    IN  update_token_usage_atomic(dated.session, dated.row, total_tokens)

\* check_user_quota: the session and the row afterwards, and whether it
\* returned (ok) or raised QuotaExceededError
check_user_quota(session, row, estimated_tokens, now) ==
    LET got   == SessionLoaded(session, row)
        reset == User_reset_quota_if_needed(got.user, now)
        after == IF reset.reset
                 THEN [got EXCEPT !.user = reset.user,
                                  !.dirty = got.dirty \cup {"tokens_used", "quota_reset_at"}]
                 ELSE got
        saved   == IF reset.reset THEN Committed(after) ELSE after
        written == IF reset.reset THEN FlushedRow(after, row) ELSE row
        held    == SessionLoaded(saved, written)
    IN  [session |-> held, row |-> written,
         ok |-> User_has_quota_remaining(held.user, estimated_tokens, now)]

(***************************************************************************)
(* Authentication dependencies and the admin routes.  A credential is the  *)
(* id of the user whose valid token the caller sends, or 0 for a caller    *)
(* without a valid token.  Optional fields are sets of at most one value.  *)
(***************************************************************************)
NoCredential == 0

\* get_current_user: the status it raises, or 200 and the user's id
get_current_user(credential, table) ==
    IF credential = NoCredential \/ credential \notin DOMAIN table
    THEN [status |-> 401, user_id |-> 0]
    ELSE IF ~table[credential].is_active
    THEN [status |-> 403, user_id |-> 0]
    ELSE [status |-> 200, user_id |-> credential]

\* get_current_admin
get_current_admin(credential, table) ==
    LET current_user == get_current_user(credential, table)
    IN  IF current_user.status # 200 THEN current_user
        ELSE IF ~table[current_user.user_id].is_superuser
        THEN [status |-> 403, user_id |-> 0]
        ELSE current_user

UserAdminUpdate(is_active, is_superuser, token_limit) ==
    [is_active |-> is_active, is_superuser |-> is_superuser, token_limit |-> token_limit]

\* value if the optional field is given, else what the column holds
Given(field, held) == IF field = {} THEN held ELSE CHOOSE v \in field : TRUE

\* admin.update_user, behind the router's dependency: the status and the table
update_user(credential, user_id, user_update, table, now) ==
    LET admin == get_current_admin(credential, table)
    IN  IF admin.status # 200 THEN [status |-> admin.status, table |-> table]
        ELSE IF user_id \notin DOMAIN table THEN [status |-> 404, table |-> table]
        ELSE
          LET user == table[user_id]
              dated == IF user_update.token_limit # {} /\ user.quota_reset_at = {}
                       THEN {now + QUOTA_RESET_DAYS} ELSE user.quota_reset_at
          IN  [status |-> 200,
               table |-> [table EXCEPT ![user_id] =
                   [user EXCEPT
                       !.is_active = Given(user_update.is_active, user.is_active),
                       !.is_superuser = Given(user_update.is_superuser, user.is_superuser),
                       !.token_limit = Given(user_update.token_limit, user.token_limit),
                       !.quota_reset_at = dated]]]

AdminEmail == "admin@milesync.demo"
AdminTokenLimit == 1000000

\* main.setup_admin_user: no dependency stands before it
setup_admin_user(table) ==
    IF \E id \in DOMAIN table : table[id].email = AdminEmail
    THEN LET id == CHOOSE i \in DOMAIN table :
                       /\ table[i].email = AdminEmail
                       /\ \A j \in DOMAIN table : table[j].email = AdminEmail => i <= j
         IN  [status |-> 200, table |-> [table EXCEPT ![id].is_superuser = TRUE]]
    ELSE [status |-> 200,
          table |-> Append(table,
              User(AdminEmail, TRUE, TRUE, AdminTokenLimit, DefaultTokensUsed, {}))]

(***************************************************************************)
(* Coordinator, and the agent stage of the chat route that calls it.       *)
(***************************************************************************)
\* the agent a turn goes to: the one named, else Execution for a turn about an
\* existing goal, else Foundation
AgentCoordinator_select(ctx) ==
    LET named == IF ctx.additional_context.kind = "dict"
                 THEN ctx.additional_context.agent_type ELSE "<absent>"
    IN  IF named \in AgentTypes THEN named
        ELSE IF ctx.current_goal.present THEN "execution"
        ELSE "foundation"

\* agent.process(context) of the agent selected
AgentProcess(selected, ctx, cmpl, now, choice) ==
    CASE selected = "foundation" -> FoundationAgent_process(ctx, cmpl)
      [] selected = "planning"   -> PlanningAgent_process(ctx, cmpl)
      [] selected = "support"    -> SupportAgent_process(ctx, cmpl)
      [] selected = "execution"  -> ExecutionAgent_process(ctx, cmpl, now, choice)

\* the six agents
SixAgents == AgentTypes \cup {"sustainability", "psychological"}

\* process(context) of any of the six agents
ProcessOfAgent(selected, ctx, cmpl, now, choice) ==
    CASE selected = "sustainability" -> SustainabilityAgent_process(ctx)
      [] selected = "psychological"  -> PsychologicalAgent_process(ctx, cmpl)
      [] OTHER -> AgentProcess(selected, ctx, cmpl, now, choice)

\* BaseAgent.generate_response(context, ...), which Foundation, Execution and
\* Psychological call with the context itself: it reads the context to build
\* the prompt and writes nothing back
ContextAfterGenerateResponse(ctx) == ctx

\* a process() that keeps only the turns it read: del context.messages[:-5]
ContextAfterProcess_TrimsMessages(selected, ctx) ==
    [ctx EXCEPT !.messages = Suffix(ctx.messages, 1)]

\* the context object when process() has ended.  The agents read it through
\* slices, comprehensions, .get and iteration, each of which builds a new
\* value; none assigns to a field of the context or calls an in-place
\* operation on its lists and mappings.
ContextAfterProcess(selected, ctx) ==
    LET left == IF selected \in {"foundation", "execution", "psychological"}
                THEN ContextAfterGenerateResponse(ctx) ELSE ctx
    IN  [messages           |-> left.messages,
         additional_context |-> left.additional_context,
         current_goal       |-> left.current_goal,
         task_history       |-> left.task_history]

SafeFallbackMessage == <<"I'm having trouble right now. Please try again.">>

\* a route that lets the agent's exception through
AgentCoordinator_route_Unguarded(ctx, cmpl, now, choice) ==
    AgentProcess(AgentCoordinator_select(ctx), ctx, cmpl, now, choice)

\* AgentCoordinator.route: the agent's response, or a failed response in its
\* place when the agent raises
AgentCoordinator_route(ctx, cmpl, now, choice) ==
    LET selected == AgentCoordinator_select(ctx)
        outcome  == AgentProcess(selected, ctx, cmpl, now, choice)
    IN  IF outcome.kind = "raised"
        THEN create_response(selected, FALSE, SafeFallbackMessage, NoData, FALSE, "none")
        ELSE outcome

AgentSystemFailure == "Agent system did not produce response"

\* send_message, from the call of route to the choice between the agent's
\* message and the legacy service: exc is what its except clause caught
send_message_agent_stage(agent_response) ==
    IF agent_response.kind = "raised"
    THEN [path |-> "legacy", ai_response |-> <<>>, exc |-> agent_response.exc]
    ELSE IF agent_response.success /\ Len(agent_response.message) > 0
    THEN [path |-> "agent", ai_response |-> agent_response.message, exc |-> ""]
    ELSE [path |-> "legacy", ai_response |-> <<>>, exc |-> AgentSystemFailure]

\* BaseAgent.generate_response: the completion calls it makes
generate_response_calls(cmpl) == IF cmpl.kind = "no_client" THEN 0 ELSE 1

\* the calls of client.chat.completions.create that process() of the agent
\* selected makes: none where it raises first or has no client
AgentCompletionCalls(selected, ctx, cmpl) ==
    LET ready == FoundationAgent_should_generate_assessment(ctx)
        request_type == IF ctx.additional_context.kind = "dict"
                        THEN ctx.additional_context.request_type ELSE "<absent>"
        direct == IF cmpl.kind = "no_client" THEN 0 ELSE 1
    IN  CASE selected = "foundation" ->
                 IF ready.exc # "" THEN 0
                 ELSE IF ready.value
                 THEN (IF SummarizeRaises(ctx.messages) THEN 0 ELSE direct)
                 ELSE generate_response_calls(cmpl)
          [] selected = "execution" ->
                 IF request_type \in {"daily_summary", "task_complete"} THEN 0
                 ELSE generate_response_calls(cmpl)
          [] OTHER -> direct

LegacyUnconfiguredMessage ==
    <<"I apologize, but I'm currently unable to process your request. ",
      "The AI service is not configured. Please contact support.">>

\* ai_service.generate_chat_response_with_usage: what it returns or raises,
\* and the completion calls it makes
generate_chat_response_with_usage(cmpl) ==
    IF cmpl.kind = "no_client"
    THEN [exc |-> "ValueError", text |-> <<>>, calls |-> 0]
    ELSE IF cmpl.kind = "api_error"
    THEN [exc |-> "APIError", text |-> <<>>, calls |-> 1]
    ELSE IF cmpl.kind = "null_content"
    THEN [exc |-> "", text |-> <<>>, calls |-> 1]
    ELSE [exc |-> "", text |-> cmpl.text, calls |-> 1]

\* n completion calls, as events
CompletionEvents(n) == [i \in 1..n |-> "completion"]

\* send_message from the call of the agent system to the response: the
\* status, the events in order, the user's row and the session afterwards
send_message(ctx, cmpl, now, choice, session, row, total_tokens) ==
    LET agent_response == AgentCoordinator_route(ctx, cmpl, now, choice)
        stage   == send_message_agent_stage(agent_response)
        routed  == CompletionEvents(
                       AgentCompletionCalls(AgentCoordinator_select(ctx), ctx, cmpl))
        checked == check_user_quota(session, row, 0, now)
        legacy  == generate_chat_response_with_usage(cmpl)
        tracked == track_openai_usage(checked.session, checked.row, total_tokens, now)
    IN  IF stage.path = "agent"
        THEN [status |-> 200, ai_response |-> stage.ai_response, calls |-> routed,
              row |-> row, session |-> Committed(session), usage |-> 0]
        ELSE IF ~checked.ok
        THEN [status |-> 429, ai_response |-> <<>>,
              calls |-> routed \o <<"check_user_quota">>,
              row |-> checked.row, session |-> checked.session, usage |-> 0]
        ELSE IF legacy.exc = "ValueError"
        THEN [status |-> 200, ai_response |-> LegacyUnconfiguredMessage,
              calls |-> routed \o <<"check_user_quota">>,
              row |-> checked.row, session |-> Committed(checked.session), usage |-> 0]
        ELSE IF legacy.exc # ""
        THEN [status |-> 503, ai_response |-> <<>>,
              calls |-> routed \o <<"check_user_quota", "completion">>,
              row |-> checked.row, session |-> checked.session, usage |-> 0]
        ELSE [status |-> 200, ai_response |-> legacy.text,
              calls |-> routed \o <<"check_user_quota", "completion">>,
              row |-> tracked.row, session |-> Committed(tracked.session),
              usage |-> total_tokens]

(***************************************************************************)
(* Inputs.  Conversations are sequences over a pool of messages chosen so  *)
(* that every signal of the readiness test can be present or absent on its *)
(* own and the text length can fall on either side of the threshold.       *)
(***************************************************************************)
MaxMessages == 4

BoundedSeq(S, n) == UNION {[1..k -> S] : k \in 0..n}

\* 94 characters, no keyword
uPad      == Message("user", "str", Pad(94))
\* both keywords, visible only after lower(): "Want To BY"
uKeywords == Message("user", "str", <<"W","a","n","t"," ","T","o"," ","B","Y">>)
\* a timeline keyword inside a word: "baby"
uTimeline == Message("user", "str", <<"b","a","b","y">>)
\* a motivation keyword: "dream"
uMotive   == Message("user", "str", <<"d","r","e","a","m">>)
uEmpty    == Message("user", "str", <<>>)
\* a long assistant turn holding both keywords: "because deadline xxx..."
aLong     == Message("assistant", "str",
                 <<"b","e","c","a","u","s","e"," ","d","e","a","d","l","i","n","e"," ">>
                 \o Pad(190))
\* a turn whose content is None
uNull     == Message("user", "null", <<>>)

MessagePool == {uPad, uKeywords, uTimeline, uMotive, uEmpty, aLong}
SmallMessagePool == {uPad, uKeywords, uEmpty}

AdditionalContexts ==
    {NoAdditionalContext, AdditionalContext(FALSE, "<absent>", "<absent>"),
     AdditionalContext(TRUE, "<absent>", "<absent>")}

NoGoal == [present |-> FALSE]
NoResult == [exc |-> "<none>", value |-> FALSE]
NoCaller == [path |-> "none", ai_response |-> <<>>, exc |-> ""]
NoArgs == [habit_score |-> 0, burnout_score |-> 0]
NoUsers == <<>>
NoRequests == <<>>
NoChats == <<>>
NoChain == <<>>
NoCompletion == Completion("none", <<>>, EmptyPayload)

ReplyTexts ==
    { <<"JSON">>,
      <<"FENCE_JSON", "WS", "JSON", "WS", "FENCE">>,
      <<"PROSE", "FENCE", "JSON", "FENCE", "PROSE">>,
      <<"PROSE", "JSON">>,
      <<"GARBAGE">>,
      <<>> }

GoalTypeInputs ==
    {"<absent>", "<null>", "SHORT_TERM", "long_term", "Resolution", "medium_term",
     "Medium_Term"}

ScoreInputs == {"<absent>", "7", "11"}

FailingCompletions ==
    {Completion(k, <<>>, EmptyPayload) : k \in {"no_client", "api_error", "null_content"}}

FoundationCompletions ==
    FailingCompletions
    \cup {Completion("text", t, EmptyPayload) : t \in ReplyTexts}
    \cup {Completion("text", <<"JSON">>,
              [EmptyPayload EXCEPT !.goal_type = g, !.motivation_score = m]) :
              g \in GoalTypeInputs, m \in ScoreInputs}
    \cup {Completion("text", <<"JSON">>, [EmptyPayload EXCEPT !.shape = "list"])}

\* what the completion capability may propose for one task's frequency
MaxDailyProposed == 4
MaxWeeklyProposed == 6
MaxMilestoneTasks == 2

\* the tasks of one bucket: the i-th task is titled i
ProposedTasks(frequencies) ==
    [i \in 1..Len(frequencies) |-> [title |-> i, frequency |-> frequencies[i]]]

DailyProposals ==
    {ProposedTasks(f) : f \in BoundedSeq({"daily", "DAILY", "<absent>"}, MaxDailyProposed)}

WeeklyProposals ==
    {ProposedTasks(f) : f \in BoundedSeq({"weekly", "<null>"}, MaxWeeklyProposed)}

MonthlyProposals ==
    {ProposedTasks(f) : f \in BoundedSeq({"monthly", "sometimes"}, 1)}

MilestoneProposals ==
    {<<>>} \cup
    {<<[id |-> "M1", tasks |-> ProposedTasks(f)]>> :
        f \in BoundedSeq({"one_time", "hourly", "<absent>"}, MaxMilestoneTasks)}

PlanningCompletions ==
    FailingCompletions
    \cup {Completion("text", t, EmptyPayload) : t \in ReplyTexts}
    \cup {Completion("text", <<"JSON">>,
              [EmptyPayload EXCEPT !.daily = d, !.weekly = w]) :
              d \in DailyProposals, w \in WeeklyProposals}
    \cup {Completion("text", <<"JSON">>,
              [EmptyPayload EXCEPT !.monthly = m, !.milestones = ms]) :
              m \in MonthlyProposals, ms \in MilestoneProposals}
    \cup {Completion("text", <<"JSON">>, [EmptyPayload EXCEPT !.shape = "list"])}

PlanningContexts ==
    {AgentContext(m, ac, NoGoal, <<>>) :
        m \in {<<>>, <<uKeywords>>}, ac \in {NoAdditionalContext}}

MaxResources == 3

ResourceProposals ==
    BoundedSeq({[type |-> "COURSE", name |-> "Course", relevance_score |-> "0.9"],
                [type |-> "BOOK", name |-> "Book", relevance_score |-> "<absent>"],
                [type |-> "EXPERT", name |-> "Coach", relevance_score |-> "high"]},
               MaxResources)

SupportCompletions ==
    FailingCompletions
    \cup {Completion("text", t, EmptyPayload) : t \in ReplyTexts}
    \cup {Completion("text", <<"JSON">>,
              [EmptyPayload EXCEPT !.recommended_resources = r]) :
              r \in ResourceProposals}
    \cup {Completion("text", <<"JSON">>, [EmptyPayload EXCEPT !.shape = "list"])}

SomeGoal == [present |-> TRUE]

SupportContexts ==
    {AgentContext(m, NoAdditionalContext, g, <<>>) :
        m \in BoundedSeq({uKeywords, uEmpty}, 2), g \in {NoGoal, SomeGoal}}

MaxHistory == 4

\* the calendar days the histories speak of, and the days "now" may fall on
HistoryDays == 2..6
NowDays == {5, 6}

TaskPool ==
    {Task("Run", "completed", NoTimestamp, IsoTimestamp(d, IF d % 2 = 0 THEN "Z" ELSE "")) :
        d \in HistoryDays}
    \cup {Task("Read", "pending", NoTimestamp, IsoTimestamp(5, "")),
          Task("Read", "completed", NoTimestamp, NoTimestamp),
          Task("Read", "completed", NoTimestamp, GarbageTimestamp)}

RouteAdditionalContexts ==
    {NoAdditionalContext}
    \cup {AdditionalContext(g, a, "<absent>") :
             g \in BOOLEAN, a \in {"<absent>", "planning", "support", "unknown"}}
    \cup {AdditionalContext(FALSE, "execution", r) :
             r \in {"<absent>", "daily_summary", "task_complete"}}

RouteHistories ==
    {<<>>,
     <<Task("Run", "completed", IsoTimestamp(5, "Z"), IsoTimestamp(5, "Z")),
       Task("Read", "pending", IsoTimestamp(5, ""), NoTimestamp)>>}

RouteContexts ==
    {AgentContext(m, ac, g, h) :
        m \in BoundedSeq({uKeywords, uEmpty, uNull}, MaxMessages),
        ac \in RouteAdditionalContexts, g \in {NoGoal, SomeGoal},
        h \in RouteHistories}

RouteCompletions ==
    FailingCompletions
    \cup {Completion("text", t, EmptyPayload) : t \in {<<"JSON">>, <<"GARBAGE">>}}

(***************************************************************************)
(* The readiness test on its own.                                          *)
(***************************************************************************)
InitAssess ==
    /\ pc = "start"
    /\ agent = "foundation"
    /\ context \in {AgentContext(m, ac, NoGoal, <<>>) :
                        m \in BoundedSeq(MessagePool, MaxMessages),
                        ac \in AdditionalContexts}
    /\ completion = NoCompletion
    /\ today = 0
    /\ draw = 1
    /\ response = NoResponse
    /\ result = NoResult
    /\ caller = NoCaller
    /\ users = NoUsers
    /\ requests = NoRequests
    /\ args = NoArgs
    /\ chain = NoChain
    /\ chats = NoChats

ShouldGenerateAssessment ==
    /\ pc = "start"
    /\ result' = FoundationAgent_should_generate_assessment(context)
    /\ pc' = "done"
    /\ UNCHANGED <<agent, context, completion, today, draw, response, caller, args, users, requests, chats,
                   chain>>

SpecAssess == InitAssess /\ [][ShouldGenerateAssessment]_vars

(***************************************************************************)
(* One call of an agent's process().                                       *)
(***************************************************************************)
InitFoundation ==
    /\ pc = "start"
    /\ agent = "foundation"
    /\ context \in {AgentContext(m, ac, NoGoal, <<>>) :
                        m \in BoundedSeq(SmallMessagePool, MaxMessages),
                        ac \in AdditionalContexts}
    /\ completion \in FoundationCompletions
    /\ today = 0
    /\ draw = 1
    /\ response = NoResponse
    /\ result = NoResult
    /\ caller = NoCaller
    /\ users = NoUsers
    /\ requests = NoRequests
    /\ args = NoArgs
    /\ chain = NoChain
    /\ chats = NoChats

FoundationProcess ==
    /\ pc = "start"
    /\ agent = "foundation"
    /\ response' = FoundationAgent_process(context, completion)
    /\ pc' = "done"
    /\ UNCHANGED <<agent, context, completion, today, draw, result, caller, args, users, requests, chats,
                   chain>>

InitPlanning ==
    /\ pc = "start"
    /\ agent = "planning"
    /\ context \in PlanningContexts
    /\ completion \in PlanningCompletions
    /\ today = 0
    /\ draw = 1
    /\ response = NoResponse
    /\ result = NoResult
    /\ caller = NoCaller
    /\ users = NoUsers
    /\ requests = NoRequests
    /\ args = NoArgs
    /\ chain = NoChain
    /\ chats = NoChats

PlanningProcess ==
    /\ pc = "start"
    /\ agent = "planning"
    /\ response' = PlanningAgent_process(context, completion)
    /\ pc' = "done"
    /\ UNCHANGED <<agent, context, completion, today, draw, result, caller, args, users, requests, chats,
                   chain>>

Init == InitFoundation \/ InitPlanning

Next == FoundationProcess \/ PlanningProcess

InitSupport ==
    /\ pc = "start"
    /\ agent = "support"
    /\ context \in SupportContexts
    /\ completion \in SupportCompletions
    /\ today = 0
    /\ draw = 1
    /\ response = NoResponse
    /\ result = NoResult
    /\ caller = NoCaller
    /\ users = NoUsers
    /\ requests = NoRequests
    /\ args = NoArgs
    /\ chain = NoChain
    /\ chats = NoChats

SupportProcess ==
    /\ pc = "start"
    /\ agent = "support"
    /\ response' = SupportAgent_process(context, completion)
    /\ pc' = "done"
    /\ UNCHANGED <<agent, context, completion, today, draw, result, caller, args, users, requests, chats,
                   chain>>

SpecSupport == InitSupport /\ [][SupportProcess]_vars

(***************************************************************************)
(* The streak computation on its own.                                      *)
(***************************************************************************)
InitStreak ==
    /\ pc = "start"
    /\ agent = "execution"
    /\ context \in {AgentContext(<<>>, NoAdditionalContext, NoGoal, h) :
                        h \in BoundedSeq(TaskPool, MaxHistory)}
    /\ completion = NoCompletion
    /\ today \in NowDays
    /\ draw = 1
    /\ response = NoResponse
    /\ result = NoResult
    /\ caller = NoCaller
    /\ users = NoUsers
    /\ requests = NoRequests
    /\ args = NoArgs
    /\ chain = NoChain
    /\ chats = NoChats

CalculateStreak ==
    /\ pc = "start"
    /\ result' = [exc |-> "",
                  value |-> ExecutionAgent_calculate_streak(context.task_history, today)]
    /\ pc' = "done"
    /\ UNCHANGED <<agent, context, completion, today, draw, response, caller, args, users, requests, chats,
                   chain>>

SpecStreak == InitStreak /\ [][CalculateStreak]_vars

Spec == Init /\ [][Next]_vars

(***************************************************************************)
(* One turn through the coordinator.                                       *)
(***************************************************************************)
InitRoute ==
    /\ pc = "start"
    /\ agent = "coordinator"
    /\ context \in RouteContexts
    /\ completion \in RouteCompletions
    /\ today = 5
    /\ draw \in {1, 2}
    /\ response = NoResponse
    /\ result = NoResult
    /\ caller = NoCaller
    /\ users = NoUsers
    /\ requests = NoRequests
    /\ args = NoArgs
    /\ chain = NoChain
    /\ chats = NoChats

Route ==
    /\ pc = "start"
    /\ agent = "coordinator"
    /\ response' = AgentCoordinator_route(context, completion, today, draw)
    /\ caller' = send_message_agent_stage(response')
    /\ pc' = "done"
    /\ UNCHANGED <<agent, context, completion, today, draw, result, args, users, requests, chats,
                   chain>>

SpecRoute == InitRoute /\ [][Route]_vars

(***************************************************************************)
(* One call of the Execution agent's process() on a request that needs no  *)
(* completion call: a task completion or a daily summary.                  *)
(***************************************************************************)
StreakSpan == 14

\* one record per day 1..StreakSpan, completed on the days of the set and
\* left pending, though stamped, on the others
HistoryOfDays(days) ==
    [d \in 1..StreakSpan |->
        Task("Run", IF d \in days THEN "completed" ELSE "pending",
             IsoTimestamp(d, "Z"), IsoTimestamp(d, "Z"))]

CompletionContexts ==
    {AgentContext(<<>>, AdditionalContext(FALSE, "execution", "task_complete"),
                  SomeGoal, HistoryOfDays(days)) : days \in SUBSET (1..StreakSpan)}

MaxSummaryTasks == 4

\* tasks created today (day 5) or not, completed or not
SummaryTaskPool ==
    {Task("Run", "completed", IsoTimestamp(5, "Z"), IsoTimestamp(5, "Z")),
     Task("Read", "pending", IsoTimestamp(5, ""), NoTimestamp),
     Task("Swim", "completed", IsoTimestamp(4, ""), IsoTimestamp(4, "")),
     Task("Walk", "pending", NoTimestamp, NoTimestamp),
     Task("Cook", "completed", GarbageTimestamp, IsoTimestamp(5, "Z"))}

SummaryContexts ==
    {AgentContext(<<>>, AdditionalContext(FALSE, "execution", "daily_summary"),
                  SomeGoal, h) : h \in BoundedSeq(SummaryTaskPool, MaxSummaryTasks)}

InitCompletion ==
    /\ pc = "start"
    /\ agent = "execution"
    /\ context \in CompletionContexts
    /\ completion = NoCompletion
    /\ today = StreakSpan
    /\ draw \in 1..Len(CelebrationPool)
    /\ response = NoResponse
    /\ result = NoResult
    /\ caller = NoCaller
    /\ users = NoUsers
    /\ requests = NoRequests
    /\ args = NoArgs
    /\ chain = NoChain
    /\ chats = NoChats

InitSummary ==
    /\ pc = "start"
    /\ agent = "execution"
    /\ context \in SummaryContexts
    /\ completion = NoCompletion
    /\ today = 5
    /\ draw = 1
    /\ response = NoResponse
    /\ result = NoResult
    /\ caller = NoCaller
    /\ users = NoUsers
    /\ requests = NoRequests
    /\ args = NoArgs
    /\ chain = NoChain
    /\ chats = NoChats

InitExecution == InitCompletion \/ InitSummary

ExecutionProcess ==
    /\ pc = "start"
    /\ agent = "execution"
    /\ response' = ExecutionAgent_process(context, completion, today, draw)
    /\ pc' = "done"
    /\ UNCHANGED <<agent, context, completion, today, draw, result, caller, args, users, requests, chats,
                   chain>>

SpecExecution == InitExecution /\ [][ExecutionProcess]_vars

(***************************************************************************)
(* One call of the Psychological agent's process(), and the selection of   *)
(* the intervention on its own.                                            *)
(***************************************************************************)
\* every low-motivation word: "can't won't tired exhausted giving up quit"
pLowA == Message("user", "str", <<"c","a","n","'","t"," ","w","o","n","'","t"," ","t","i","r","e","d"," ","e","x","h","a","u","s","t","e","d"," ","g","i","v","i","n","g"," ","u","p"," ","q","u","i","t">>)
\* two low-motivation words: "tired, quit"
pLowB == Message("user", "str", <<"t","i","r","e","d",","," ","q","u","i","t">>)
\* one word three times
pTired == Message("user", "str", <<"t","i","r","e","d"," ","t","i","r","e","d"," ","t","i","r","e","d">>)
\* every high-motivation word
pHigh == Message("user", "str", <<"e","x","c","i","t","e","d"," ","e","a","g","e","r"," ","r","e","a","d","y"," ","m","o","t","i","v","a","t","e","d"," ","p","u","m","p","e","d">>)
\* two stress words
pStressA == Message("user", "str", <<"s","t","r","e","s","s","e","d"," ","a","n","x","i","o","u","s">>)
\* three stress words
pStressB == Message("user", "str", <<"o","v","e","r","w","h","e","l","m","e","d"," ","p","a","n","i","c"," ","w","o","r","r","i","e","d">>)
\* every low-confidence word; "can't do" holds "can't"
pLowConf == Message("user", "str", <<"s","t","u","p","i","d"," ","c","a","n","'","t"," ","d","o"," ","n","o","t"," ","g","o","o","d"," ","e","n","o","u","g","h"," ","f","a","i","l","u","r","e"," ","i","m","p","o","s","t","e","r">>)
\* every high-confidence word
pHighConf == Message("user", "str", <<"c","o","n","f","i","d","e","n","t"," ","c","a","p","a","b","l","e"," ","p","r","o","u","d"," ","a","c","h","i","e","v","e","d"," ","s","u","c","c","e","e","d","e","d">>)
\* the four patterns, visible only after lower()
pPatterns == Message("user", "str", <<"I"," ","A","l","w","a","y","s"," ","f","a","i","l",","," ","I"," ","S","H","O","U","L","D"," ","s","t","o","p",","," ","t","h","e"," ","W","o","r","s","t",","," ","m","y"," ","f","a","u","l","t">>)
\* "never" inside a word
pNevertheless == Message("user", "str", <<"n","e","v","e","r","t","h","e","l","e","s","s"," ","o","k">>)
\* no cue
pCalm == Message("user", "str", <<"o","k">>)
\* an assistant turn full of cues
pAssistant == Message("assistant", "str", <<"s","t","r","e","s","s","e","d"," ","a","n","x","i","o","u","s"," ","o","v","e","r","w","h","e","l","m","e","d"," ","p","a","n","i","c"," ","w","o","r","r","i","e","d"," ","n","e","v","e","r">>)

PsychMessagePool ==
    {pLowA, pLowB, pTired, pHigh, pStressA, pStressB, pLowConf, pHighConf, pPatterns, pNevertheless, pCalm, pAssistant}

MaxPsychMessages == 2

PsychHistories ==
    {<<>>,
     <<Task("Run", "completed", IsoTimestamp(5, "Z"), IsoTimestamp(5, "Z")),
       Task("Read", "pending", IsoTimestamp(5, ""), NoTimestamp)>>}

PsychContexts ==
    {AgentContext(m, NoAdditionalContext, SomeGoal, h) :
        m \in BoundedSeq(PsychMessagePool, MaxPsychMessages), h \in PsychHistories}

PsychCompletions ==
    {Completion("text", <<"PROSE">>, EmptyPayload),
     Completion("api_error", <<>>, EmptyPayload)}

InitPsych ==
    /\ pc = "start"
    /\ agent = "psychological"
    /\ context \in PsychContexts
    /\ completion \in PsychCompletions
    /\ today = 5
    /\ draw = 1
    /\ response = NoResponse
    /\ result = NoResult
    /\ caller = NoCaller
    /\ users = NoUsers
    /\ requests = NoRequests
    /\ args = NoArgs
    /\ chain = NoChain
    /\ chats = NoChats

\* process(): result keeps what _assess_emotional_state returned
PsychProcess ==
    /\ pc = "start"
    /\ agent = "psychological"
    /\ result' = [exc |-> "", value |-> PsychologicalAgent_assess_emotional_state(context)]
    /\ response' = PsychologicalAgent_process(context, completion)
    /\ pc' = "done"
    /\ UNCHANGED <<agent, context, completion, today, draw, caller, args, users, requests, chats,
                   chain>>

SpecPsych == InitPsych /\ [][PsychProcess]_vars

MaxPatternsDrawn == 2

PatternNames ==
    {"All-or-nothing thinking", "Should statements", "Catastrophizing",
     "Personalization", "Overgeneralization"}

\* every assessment _provide_intervention can be handed
Assessments ==
    {EmotionalAssessment(m, st, c, p) :
        m \in MinLevel..MaxLevel, st \in MinLevel..MaxLevel, c \in MinLevel..MaxLevel,
        p \in BoundedSeq(PatternNames, MaxPatternsDrawn)}

InitIntervention ==
    /\ pc = "start"
    /\ agent = "psychological"
    /\ context \in {AgentContext(<<pCalm>>, NoAdditionalContext, SomeGoal, h) :
                        h \in PsychHistories}
    /\ completion = NoCompletion
    /\ today = 5
    /\ draw = 1
    /\ response = NoResponse
    /\ result \in {[exc |-> "", value |-> a] : a \in Assessments}
    /\ caller = NoCaller
    /\ users = NoUsers
    /\ requests = NoRequests
    /\ args = NoArgs
    /\ chain = NoChain
    /\ chats = NoChats

\* _provide_intervention on the assessment held in result
ProvideIntervention ==
    /\ pc = "start"
    /\ agent = "psychological"
    /\ response' = PsychologicalAgent_provide_intervention(context, result.value)
    /\ pc' = "done"
    /\ UNCHANGED <<agent, context, completion, today, draw, result, caller, args, users, requests, chats,
                   chain>>

SpecIntervention == InitIntervention /\ [][ProvideIntervention]_vars

(***************************************************************************)
(* The sustainability score on its own.                                    *)
(***************************************************************************)
InitScore ==
    /\ pc = "start"
    /\ agent = "sustainability"
    /\ context = AgentContext(<<>>, NoAdditionalContext, NoGoal, <<>>)
    /\ completion = NoCompletion
    /\ today = 0
    /\ draw = 1
    /\ response = NoResponse
    /\ result = NoResult
    /\ caller = NoCaller
    /\ users = NoUsers
    /\ requests = NoRequests
    /\ args \in [habit_score : 0..MaxScore, burnout_score : 0..MaxScore]
    /\ chain = NoChain
    /\ chats = NoChats

CalculateSustainabilityScore ==
    /\ pc = "start"
    /\ result' = [exc |-> "",
                  value |-> SustainabilityAgent_calculate_sustainability_score(
                                args.habit_score, args.burnout_score)]
    /\ pc' = "done"
    /\ UNCHANGED <<agent, context, completion, today, draw, response, caller, args, users, requests, chats,
                   chain>>

SpecScore == InitScore /\ [][CalculateSustainabilityScore]_vars

(***************************************************************************)
(* process() of each of the six agents, with the context it leaves behind. *)
(***************************************************************************)
\* an ISO timestamp with a time of day
IsoTimestampAt(day, hour) == [kind |-> "iso", day |-> day, suffix |-> "", hour |-> hour]

\* a week of one task done at different hours, and one task skipped
HabitHistory ==
    [d \in 1..WeekLength |->
        Task("Run", "completed", IsoTimestampAt(d, 6), IsoTimestampAt(d, 6 + 2 * d))]
    \o <<Task("Read", "skipped", IsoTimestampAt(3, 9), NoTimestamp)>>

FrameHistories == RouteHistories \cup {HabitHistory}

MaxFrameMessages == 2

FrameAdditionalContexts ==
    {NoAdditionalContext,
     AdditionalContext(FALSE, "<absent>", "<absent>"),
     AdditionalContext(TRUE, "<absent>", "<absent>"),
     AdditionalContext(FALSE, "execution", "daily_summary"),
     AdditionalContext(FALSE, "execution", "task_complete")}

FrameContexts ==
    {AgentContext(m, ac, g, h) :
        m \in BoundedSeq({uKeywords, uNull, pStressA}, MaxFrameMessages),
        ac \in FrameAdditionalContexts, g \in {NoGoal, SomeGoal},
        h \in FrameHistories}

InitFrame ==
    /\ pc = "start"
    /\ agent \in SixAgents
    /\ context \in FrameContexts
    /\ completion \in RouteCompletions
    /\ today = 5
    /\ draw \in {1, 2}
    /\ response = NoResponse
    /\ result = NoResult
    /\ caller = NoCaller
    /\ users = NoUsers
    /\ requests = NoRequests
    /\ args = NoArgs
    /\ chain = NoChain
    /\ chats = NoChats

ProcessFrame ==
    /\ pc = "start"
    /\ agent \in SixAgents
    /\ response' = ProcessOfAgent(agent, context, completion, today, draw)
    /\ context' = ContextAfterProcess(agent, context)
    /\ pc' = "done"
    /\ UNCHANGED <<agent, completion, today, draw, result, caller, args, users, requests, chats,
                   chain>>

SpecFrame == InitFrame /\ [][ProcessFrame]_vars

(***************************************************************************)
(* send_message requests of one user, running on one event loop: a request *)
(* runs undisturbed from one await to the next.  The steps are the         *)
(* stretches between the awaits of the route: up to the call of the agent  *)
(* system, from its failure to the call of the legacy service, and from    *)
(* the legacy answer to the end.                                           *)
(***************************************************************************)
MaxRequests == 2

\* total_tokens of one completion
TokenCounts == {3, 5}

Request(pc_, user_id, session, usage, status) ==
    [pc |-> pc_, user_id |-> user_id, session |-> session, usage |-> usage,
     status |-> status]

InitUsage ==
    /\ pc = "serving"
    /\ agent = "send_message"
    /\ context = AgentContext(<<>>, NoAdditionalContext, NoGoal, <<>>)
    /\ completion = NoCompletion
    /\ today = 5
    /\ draw = 1
    /\ response = NoResponse
    /\ result = NoResult
    /\ caller = NoCaller
    /\ users \in {[id \in {1} |->
                      User("u@x", TRUE, FALSE, DEFAULT_USER_QUOTA, DefaultTokensUsed, at)] :
                  at \in {{}, {today + QUOTA_RESET_DAYS}}}
    /\ \E expire_on_commit \in BOOLEAN :
          requests = [r \in 1..MaxRequests |->
                         Request("new", 1, NewSession(expire_on_commit), 0, 0)]
    /\ args = NoArgs
    /\ chain = NoChain
    /\ chats = NoChats

\* get_current_user, then send_message down to `await coordinator.route`:
\* the user is selected, the user's message is committed, and current_user.id
\* is read for the context, which loads the row again if the commit expired it
ReceiveMessage(r) ==
    /\ requests[r].pc = "new"
    /\ requests' = [requests EXCEPT
           ![r].pc = "routing",
           ![r].session = SessionLoaded(requests[r].session, users[requests[r].user_id])]
    /\ UNCHANGED <<pc, agent, context, completion, today, draw, response, result,
                   caller, args, users, chats, chain>>

\* the agent system answers: no usage is returned to the route
AgentAnswers(r) ==
    /\ requests[r].pc = "routing"
    /\ requests' = [requests EXCEPT ![r].pc = "done", ![r].status = 200]
    /\ UNCHANGED <<pc, agent, context, completion, today, draw, response, result,
                   caller, args, users, chats, chain>>

\* the agent system fails: check_user_quota, then
\* `await ai_service.generate_chat_response_with_usage`
LegacyFallback(r) ==
    /\ requests[r].pc = "routing"
    /\ LET checked == check_user_quota(requests[r].session,
                          users[requests[r].user_id], 0, today)
       IN  /\ users' = [users EXCEPT ![requests[r].user_id] = checked.row]
           /\ requests' = [requests EXCEPT
                  ![r].session = checked.session,
                  ![r].pc = IF checked.ok THEN "completing" ELSE "done",
                  ![r].status = IF checked.ok THEN 0 ELSE 429]
    /\ UNCHANGED <<pc, agent, context, completion, today, draw, response, result,
                   caller, args, chats, chain>>

\* the legacy service returns with its usage; track_openai_usage, the
\* assistant message, db.commit()
TrackUsage(r) ==
    /\ requests[r].pc = "completing"
    /\ \E total_tokens \in TokenCounts :
          LET tracked == track_openai_usage(requests[r].session,
                             users[requests[r].user_id], total_tokens, today)
          IN  /\ users' = [users EXCEPT ![requests[r].user_id] = tracked.row]
              /\ requests' = [requests EXCEPT
                     ![r].session = Committed(tracked.session),
                     ![r].usage = total_tokens,
                     ![r].pc = "done",
                     ![r].status = 200]
    /\ UNCHANGED <<pc, agent, context, completion, today, draw, response, result,
                   caller, args, chats, chain>>

\* the legacy service raises: 503, nothing is tracked
LegacyFails(r) ==
    /\ requests[r].pc = "completing"
    /\ requests' = [requests EXCEPT ![r].pc = "done", ![r].status = 503]
    /\ UNCHANGED <<pc, agent, context, completion, today, draw, response, result,
                   caller, args, users, chats, chain>>

NextUsage ==
    \E r \in 1..MaxRequests :
        \/ ReceiveMessage(r)
        \/ AgentAnswers(r)
        \/ LegacyFallback(r)
        \/ TrackUsage(r)
        \/ LegacyFails(r)

SpecUsage == InitUsage /\ [][NextUsage]_vars

(***************************************************************************)
(* One send_message request, from the first line to the response.          *)
(***************************************************************************)
\* the context send_message builds: the turns of the chat, the goal of the
\* session if it has one, request_type None
ChatContexts ==
    {AgentContext(m, AdditionalContext(FALSE, "<absent>", "<absent>"), g, <<>>) :
        m \in BoundedSeq({uPad, uKeywords}, MaxMessages) \ {<<>>},
        g \in {NoGoal, SomeGoal}}

\* the request numbered 1 of a send_message on its own: calls are the quota
\* checks and completion calls in the order they were made, exceeded is
\* whether the user was over the limit, with no reset due, when it came in
ChatRequest(pc_, session, usage, status, calls, exceeded) ==
    [pc |-> pc_, user_id |-> 1, session |-> session, usage |-> usage,
     status |-> status, calls |-> calls, exceeded |-> exceeded]

QuotaExceeded(row, now) ==
    /\ row.tokens_used > row.token_limit
    /\ ~ \E at \in row.quota_reset_at : now >= at

InitChat ==
    /\ pc = "start"
    /\ agent = "send_message"
    /\ context \in ChatContexts
    /\ completion \in RouteCompletions
    /\ today = 5
    /\ draw = 1
    /\ response = NoResponse
    /\ result = NoResult
    /\ caller = NoCaller
    /\ users \in {[id \in {1} |-> User("u@x", TRUE, FALSE, DEFAULT_USER_QUOTA, used, at)] :
                  used \in {DefaultTokensUsed, DEFAULT_USER_QUOTA, DEFAULT_USER_QUOTA + 1},
                  at \in {{}, {today - 1}, {today + QUOTA_RESET_DAYS}}}
    /\ requests = <<ChatRequest("new", SessionLoaded(NewSession(TRUE), users[1]),
                                 0, 0, <<>>, QuotaExceeded(users[1], today))>>
    /\ args = NoArgs
    /\ chain = NoChain
    /\ chats = NoChats

SendMessage ==
    /\ pc = "start"
    /\ agent = "send_message"
    /\ \E total_tokens \in TokenCounts :
          LET sent == send_message(context, completion, today, draw,
                          requests[1].session, users[1], total_tokens)
          IN  /\ response' = AgentCoordinator_route(context, completion, today, draw)
              /\ caller' = send_message_agent_stage(response')
              /\ users' = [users EXCEPT ![1] = sent.row]
              /\ requests' = [requests EXCEPT
                     ![1].pc = "done", ![1].session = sent.session,
                     ![1].usage = sent.usage, ![1].status = sent.status,
                     ![1].calls = sent.calls]
    /\ pc' = "done"
    /\ UNCHANGED <<agent, context, completion, today, draw, result, args, chats, chain>>

SpecChat == InitChat /\ [][SendMessage]_vars

(***************************************************************************)
(* Requests to the admin routes and to the set-up endpoint, one after the  *)
(* other; requests holds the last one: its endpoint, the credential sent,  *)
(* whether it passed get_current_admin, and its status.                    *)
(***************************************************************************)
AdminRequest(endpoint, credential, admin, status) ==
    <<[endpoint |-> endpoint, credential |-> credential, admin |-> admin,
       status |-> status]>>

UserAdminUpdates ==
    {UserAdminUpdate(a, s, l) :
        a \in {{}, {TRUE}, {FALSE}}, s \in {{}, {TRUE}, {FALSE}},
        l \in {{}, {5}}}

MaxUsers == 3

InitAdmin ==
    /\ pc = "serving"
    /\ agent = "admin"
    /\ context = AgentContext(<<>>, NoAdditionalContext, NoGoal, <<>>)
    /\ completion = NoCompletion
    /\ today = 5
    /\ draw = 1
    /\ response = NoResponse
    /\ result = NoResult
    /\ caller = NoCaller
    /\ users \in {<<User("root@x", TRUE, root, DEFAULT_USER_QUOTA, DefaultTokensUsed, {}),
                    User(email, active, FALSE, DEFAULT_USER_QUOTA, DefaultTokensUsed, {})>> :
                  root \in BOOLEAN, active \in BOOLEAN, email \in {"u@x", AdminEmail}}
    /\ requests = NoRequests
    /\ args = NoArgs
    /\ chain = NoChain
    /\ chats = NoChats

\* PUT /admin/users/{user_id}
UpdateUser ==
    /\ agent = "admin"
    /\ \E credential \in 0..MaxUsers, user_id \in 1..MaxUsers,
          user_update \in UserAdminUpdates :
          LET updated == update_user(credential, user_id, user_update, users, today)
          IN  /\ users' = updated.table
              /\ requests' = AdminRequest("update_user", credential,
                                 get_current_admin(credential, users).status = 200,
                                 updated.status)
    /\ UNCHANGED <<pc, agent, context, completion, today, draw, response, result,
                   caller, args, chats, chain>>

\* GET /setup-admin-user-emergency
SetupAdminUser ==
    /\ agent = "admin"
    /\ \E credential \in 0..MaxUsers :
          LET made == setup_admin_user(users)
          IN  /\ users' = made.table
              /\ requests' = AdminRequest("setup_admin_user", credential, FALSE,
                                 made.status)
    /\ UNCHANGED <<pc, agent, context, completion, today, draw, response, result,
                   caller, args, chats, chain>>

NextAdmin == UpdateUser \/ SetupAdminUser

SpecAdmin == InitAdmin /\ [][NextAdmin]_vars

(***************************************************************************)
(* The Sustainability agent's analysis of one context: the helpers of      *)
(* _analyze_sustainability, each on its own, and process().                *)
(***************************************************************************)
\* records before the two windows _assess_burnout looks at
MaxLead == 1

\* lead pending tasks, then a window of seven with older_completed of them
\* completed, then a window of seven with recent_completed of them completed;
\* one task a day, done at eight
WindowHistory(lead, older_completed, recent_completed) ==
    [i \in 1..(lead + 2 * BurnoutWindow) |->
        IF i <= lead
        THEN Task("Read", "pending", IsoTimestampAt(i, 7), NoTimestamp)
        ELSE IF \/ i - lead <= older_completed
                \/ /\ i - lead > BurnoutWindow
                   /\ i - lead - BurnoutWindow <= recent_completed
        THEN Task("Run", "completed", IsoTimestampAt(i, 7), IsoTimestampAt(i, 8))
        ELSE Task("Run", "pending", IsoTimestampAt(i, 7), NoTimestamp)]

\* four tasks, each done every day of a week
FourHabits ==
    [i \in 1..(4 * WeekLength) |->
        Task(<<"Run", "Read", "Stretch", "Write">>[((i - 1) % 4) + 1], "completed",
             IsoTimestampAt((i - 1) \div 4, 7), IsoTimestampAt((i - 1) \div 4, 18))]

\* tasks done on the first days of a week only
ActiveDays(days) ==
    [d \in 1..days |->
        Task("Run", "completed", IsoTimestampAt(d, 7), IsoTimestampAt(d, 13))]

\* one task marked completed, with no completed_at, often enough for a
\* habit_score of 60
LongHabit ==
    [i \in 1..((60 * HabitHorizonDays) \div MaxScore) |->
        Task("Run", "completed", IsoTimestampAt(i, 7), NoTimestamp)]

SustainHistories ==
    RouteHistories
        \cup {HabitHistory, FourHabits, LongHabit,
              <<Task("Read", "pending", IsoTimestampAt(1, 7), NoTimestamp)>>}
        \cup {ActiveDays(days) : days \in 1..4}
        \cup {WindowHistory(lead, o, r) :
                 lead \in 0..MaxLead, o \in 0..BurnoutWindow, r \in 0..BurnoutWindow}

SustainMessages ==
    {<<>>, <<uKeywords>>, <<pStressA>>, <<pStressA, pStressA>>, <<uNull>>,
     <<pStressA>> \o [i \in 1..RecentMessages |-> uKeywords]}

SustainContexts ==
    {AgentContext(m, NoAdditionalContext, NoGoal, h) :
        m \in SustainMessages, h \in SustainHistories}

\* SustainabilityAgent._assess_burnout: (risk, burnout_score)
SustainabilityAgent_assess_burnout(ctx) ==
    [risk |-> BurnoutRisk(BurnoutScore(ctx)), burnout_score |-> BurnoutScore(ctx)]

\* what the helpers return for one context
Analysis(ctx) ==
    IF BurnoutRaises(ctx.messages)
    THEN [exc |-> "AttributeError", value |-> FALSE]
    ELSE [exc |-> "<none>",
          value |->
             [habit_analysis |-> SustainabilityAgent_analyze_habits(ctx.task_history),
              pattern_insights |-> SustainabilityAgent_detect_patterns(ctx.task_history),
              burnout |-> SustainabilityAgent_assess_burnout(ctx)]]

InitSustain ==
    /\ pc = "start"
    /\ agent = "sustainability"
    /\ context \in SustainContexts
    /\ completion = NoCompletion
    /\ today = 5
    /\ draw = 1
    /\ response = NoResponse
    /\ result = NoResult
    /\ caller = NoCaller
    /\ users = NoUsers
    /\ requests = NoRequests
    /\ args = NoArgs
    /\ chain = NoChain
    /\ chats = NoChats

AnalyzeSustainability ==
    /\ pc = "start"
    /\ agent = "sustainability"
    /\ result' = Analysis(context)
    /\ response' = SustainabilityAgent_process(context)
    /\ pc' = "done"
    /\ UNCHANGED <<agent, context, completion, today, draw, caller, args, users,
                   requests, chats, chain>>

SpecSustain == InitSustain /\ [][AnalyzeSustainability]_vars

(***************************************************************************)
(* send_message and finalize_session requests on one chat session, running *)
(* on one event loop.  chats is the row of the session in chat_sessions,   *)
(* the roles of its chat_messages in the order they were stored, and the   *)
(* goals made of it, each named by the request that made it.  A request    *)
(* runs undisturbed from one await to the next: send_message up to         *)
(* `await coordinator.route`, from there to the legacy await and from      *)
(* there to its end; finalize_session up to                                *)
(* `await ai_service.extract_goal_from_conversation` and from there to its *)
(* end.                                                                    *)
(***************************************************************************)
ChatStatus == {"active", "finalized"}

MessageRole == {"user", "assistant"}

ChatSession(status, messages, goals, goal_id) ==
    [status |-> status, messages |-> messages, goals |-> goals, goal_id |-> goal_id]

\* the session start_chat leaves behind
start_chat == ChatSession("active", <<"assistant">>, <<>>, {})

\* fewer messages than this and finalize_session answers 400
MinMessagesToFinalize == 2

Endpoints == {"send_message", "finalize_session"}

SessionRequest(endpoint, pc_, session, usage, status, detail) ==
    [endpoint |-> endpoint, pc |-> pc_, user_id |-> 1, session |-> session,
     usage |-> usage, status |-> status, detail |-> detail]

Ended(request, status, detail) ==
    [request EXCEPT !.pc = "done", !.status = status, !.detail = detail]

InitSession ==
    /\ pc = "serving"
    /\ agent = "chat"
    /\ context = AgentContext(<<>>, NoAdditionalContext, NoGoal, <<>>)
    /\ completion = NoCompletion
    /\ today = 5
    /\ draw = 1
    /\ response = NoResponse
    /\ result = NoResult
    /\ caller = NoCaller
    /\ users = [id \in {1} |->
                   User("u@x", TRUE, FALSE, DEFAULT_USER_QUOTA, DefaultTokensUsed, {})]
    /\ requests \in [1..MaxRequests ->
                        {SessionRequest(e, "new", NewSession(TRUE), 0, 0, "") :
                            e \in Endpoints}]
    /\ args = NoArgs
    /\ chain = NoChain
    /\ chats \in {start_chat,
                  [start_chat EXCEPT !.messages = <<"assistant", "user", "assistant">>]}

\* send_message from its first line to `await coordinator.route`: 400 unless
\* the session is ACTIVE, else the user's message is stored and committed
SendMessageReceived(r) ==
    /\ requests[r].endpoint = "send_message"
    /\ requests[r].pc = "new"
    /\ IF chats.status # "active"
       THEN /\ requests' = [requests EXCEPT ![r] =
                   Ended(@, 400, "Cannot send messages to a completed session")]
            /\ UNCHANGED chats
       ELSE /\ chats' = [chats EXCEPT !.messages = Append(@, "user")]
            /\ requests' = [requests EXCEPT
                   ![r].pc = "routing",
                   ![r].session = SessionLoaded(requests[r].session,
                                                users[requests[r].user_id])]
    /\ UNCHANGED <<pc, agent, context, completion, today, draw, response, result,
                   caller, args, users, chain>>

\* the agent system answers: the assistant message is stored and committed
SendMessageAnswered(r) ==
    /\ requests[r].endpoint = "send_message"
    /\ requests[r].pc = "routing"
    /\ chats' = [chats EXCEPT !.messages = Append(@, "assistant")]
    /\ requests' = [requests EXCEPT ![r] = Ended(@, 200, "")]
    /\ UNCHANGED <<pc, agent, context, completion, today, draw, response, result,
                   caller, args, users, chain>>

\* the agent system fails: check_user_quota, then
\* `await ai_service.generate_chat_response_with_usage`
SendMessageFallsBack(r) ==
    /\ requests[r].endpoint = "send_message"
    /\ requests[r].pc = "routing"
    /\ LET checked == check_user_quota(requests[r].session,
                          users[requests[r].user_id], 0, today)
       IN  /\ users' = [users EXCEPT ![requests[r].user_id] = checked.row]
           /\ requests' = [requests EXCEPT ![r] =
                  IF checked.ok
                  THEN [@ EXCEPT !.session = checked.session, !.pc = "completing"]
                  ELSE Ended([@ EXCEPT !.session = checked.session], 429, "")]
    /\ UNCHANGED <<pc, agent, context, completion, today, draw, response, result,
                   caller, args, chats, chain>>

\* the legacy service returns with its usage: track_openai_usage, then the
\* assistant message is stored and committed
SendMessageCompleted(r) ==
    /\ requests[r].endpoint = "send_message"
    /\ requests[r].pc = "completing"
    /\ \E total_tokens \in TokenCounts :
          LET tracked == track_openai_usage(requests[r].session,
                             users[requests[r].user_id], total_tokens, today)
          IN  /\ users' = [users EXCEPT ![requests[r].user_id] = tracked.row]
              /\ requests' = [requests EXCEPT ![r] =
                     Ended([@ EXCEPT !.session = Committed(tracked.session),
                                     !.usage = total_tokens], 200, "")]
    /\ chats' = [chats EXCEPT !.messages = Append(@, "assistant")]
    /\ UNCHANGED <<pc, agent, context, completion, today, draw, response, result,
                   caller, args, chain>>

\* the legacy service raises: 503, no assistant message
SendMessageUnavailable(r) ==
    /\ requests[r].endpoint = "send_message"
    /\ requests[r].pc = "completing"
    /\ requests' = [requests EXCEPT ![r] =
           Ended(@, 503, "AI service temporarily unavailable")]
    /\ UNCHANGED <<pc, agent, context, completion, today, draw, response, result,
                   caller, args, users, chats, chain>>

\* finalize_session from its first line to
\* `await ai_service.extract_goal_from_conversation`
FinalizeReceived(r) ==
    /\ requests[r].endpoint = "finalize_session"
    /\ requests[r].pc = "new"
    /\ requests' = [requests EXCEPT ![r] =
           IF chats.status # "active"
           THEN Ended(@, 400, "Session already finalized")
           ELSE IF Len(chats.messages) < MinMessagesToFinalize
                THEN Ended(@, 400, "Not enough conversation to create a goal")
                ELSE [@ EXCEPT !.pc = "extracting"]]
    /\ UNCHANGED <<pc, agent, context, completion, today, draw, response, result,
                   caller, args, users, chats, chain>>

\* the extraction returns a goal: goal_service.create_goal_from_ai, then the
\* session is set FINALIZED with the goal's id and committed
FinalizeCreatesGoal(r) ==
    /\ requests[r].endpoint = "finalize_session"
    /\ requests[r].pc = "extracting"
    /\ chats' = [chats EXCEPT !.goals = Append(@, r), !.status = "finalized",
                              !.goal_id = {r}]
    /\ requests' = [requests EXCEPT ![r] = Ended(@, 200, "")]
    /\ UNCHANGED <<pc, agent, context, completion, today, draw, response, result,
                   caller, args, users, chain>>

\* the extraction raises (503) or returns nothing (422)
FinalizeFails(r) ==
    /\ requests[r].endpoint = "finalize_session"
    /\ requests[r].pc = "extracting"
    /\ \E failure \in {<<503, "AI service temporarily unavailable">>,
                       <<422, "Could not extract a clear goal from the conversation">>} :
          requests' = [requests EXCEPT ![r] = Ended(@, failure[1], failure[2])]
    /\ UNCHANGED <<pc, agent, context, completion, today, draw, response, result,
                   caller, args, users, chats, chain>>

NextSession ==
    \E r \in 1..MaxRequests :
        \/ SendMessageReceived(r)
        \/ SendMessageAnswered(r)
        \/ SendMessageFallsBack(r)
        \/ SendMessageCompleted(r)
        \/ SendMessageUnavailable(r)
        \/ FinalizeReceived(r)
        \/ FinalizeCreatesGoal(r)
        \/ FinalizeFails(r)

SpecSession == InitSession /\ [][NextSession]_vars

(***************************************************************************)
(* A caller that follows the hand-off hints: it invokes an agent and, when *)
(* the response names a next_agent, invokes that agent on the same         *)
(* conversation with the finished agent's data as                          *)
(* additional_context.previous_output.  chain is the agents invoked so     *)
(* far.                                                                    *)
(***************************************************************************)
\* the caller gives up after this many invocations
MaxChain == 4

ChainContexts ==
    {AgentContext(m, ac, g, h) :
        m \in {<<uKeywords>>, <<uKeywords, uPad, uKeywords, uPad>>},
        ac \in AdditionalContexts \cup {AdditionalContext(FALSE, "execution", "daily_summary")},
        g \in {NoGoal, SomeGoal}, h \in RouteHistories}

\* additional_context with previous_output set: the dict that was there with
\* one more key, or a dict of that key alone
WithPreviousOutput(additional_context) ==
    {AdditionalContext(FALSE, "<absent>", "<absent>"),
     [additional_context EXCEPT !.kind = "dict"]}

InitChain ==
    /\ pc = "start"
    /\ agent \in SixAgents
    /\ context \in ChainContexts
    /\ completion \in RouteCompletions
    /\ today = 5
    /\ draw = 1
    /\ response = NoResponse
    /\ result = NoResult
    /\ caller = NoCaller
    /\ users = NoUsers
    /\ requests = NoRequests
    /\ args = NoArgs
    /\ chats = NoChats
    /\ chain = NoChain

\* await agent.process(context)
InvokeAgent ==
    /\ pc = "start"
    /\ agent \in SixAgents
    /\ response' = ProcessOfAgent(agent, context, completion, today, draw)
    /\ chain' = Append(chain, agent)
    /\ pc' = "ran"
    /\ UNCHANGED <<agent, context, completion, today, draw, result, caller, args,
                   users, requests, chats>>

\* the response names a next_agent: that agent is invoked next
FollowHint ==
    /\ pc = "ran"
    /\ response.kind = "response"
    /\ response.next_agent # "none"
    /\ Len(chain) < MaxChain
    /\ agent' = response.next_agent
    /\ \E ac \in WithPreviousOutput(context.additional_context) :
          context' = [context EXCEPT !.additional_context = ac]
    /\ completion' \in RouteCompletions
    /\ pc' = "start"
    /\ UNCHANGED <<today, draw, response, result, caller, args, users, requests,
                   chats, chain>>

NextChain == InvokeAgent \/ FollowHint

SpecChain == InitChain /\ [][NextChain]_vars

(***************************************************************************)
(* Properties.                                                             *)
(***************************************************************************)
OverrideSet(ctx) ==
    ctx.additional_context.kind = "dict" /\ ctx.additional_context.generate_assessment

\* a response of _continue_intake: its success data or its fixed failure message
TookIntakePath(r) ==
    r.kind = "response"
    /\ (r.data.schema = "intake" \/ r.message = IntakeFailureMessage)

\* C1: whenever additional_context has generate_assessment=true, process() takes
\* the assessment path and not the intake path, whatever the number of messages.
C1_OverrideBeatsMessageGate ==
    (pc = "done" /\ agent = "foundation" /\ OverrideSet(context))
        => ~TookIntakePath(response)

\* What the pool's messages hold, stated message by message.
SaysTimeline(messages) ==
    \E i \in 1..Len(messages) : messages[i] \in {uKeywords, uTimeline}

SaysMotivation(messages) ==
    \E i \in 1..Len(messages) : messages[i] \in {uKeywords, uMotive}

UserTurns(messages) == {i \in 1..Len(messages) : messages[i].role = "user"}

RECURSIVE SumLen(_, _)
SumLen(messages, idx) ==
    IF idx = {} THEN 0
    ELSE LET i == CHOOSE j \in idx : TRUE
         IN  Len(messages[i].content) + SumLen(messages, idx \ {i})

\* the characters of the user turns plus one separator between neighbours
UserTextLength(messages) ==
    LET u == UserTurns(messages)
    IN  IF u = {} THEN 0 ELSE SumLen(messages, u) + Cardinality(u) - 1

\* C2: without the override flag the readiness test is true exactly when there
\* are at least 4 messages, the user text names a timeline keyword, names a
\* motivation keyword and is longer than 200 characters; under 4 messages it is
\* false whatever the keywords.
C2_ReadyIffAllSignals ==
    (pc = "done" /\ ~OverrideSet(context)) =>
        /\ result.exc = ""
        /\ result.value <=>
              /\ Len(context.messages) >= 4
              /\ SaysTimeline(context.messages)
              /\ SaysMotivation(context.messages)
              /\ UserTextLength(context.messages) > 200
        /\ Len(context.messages) < 4 => ~result.value

\* C2 witness: four messages, no override, 201 characters with both keywords
C2_Witness ==
    /\ pc = "done"
    /\ ~OverrideSet(context)
    /\ Len(context.messages) = 4
    /\ UserTextLength(context.messages) = 201
    /\ result.value

\* the reply decodes to a JSON object
DecodedObject(cmpl) ==
    /\ cmpl.kind = "text"
    /\ JsonDecodes(Strip(StripFences(cmpl.text)))
    /\ cmpl.payload.shape = "dict"

ExceptionTexts ==
    {"OpenAI client not configured", ApiErrorText,
     "argument of type 'NoneType' is not iterable",
     "'list' object has no attribute 'get'",
     "'NoneType' object has no attribute 'lower'",
     "not a valid GoalType",
     "1 validation error for FoundationOutput",
     "1 validation error for TaskSchedule"}

\* C5: a failed response of the Foundation or Planning agent carries a fixed
\* message and never the text of the exception that was raised.
C5_FailureHidesException ==
    (pc = "done" /\ agent \in {"foundation", "planning"}
        /\ response.kind = "response" /\ ~response.success) =>
        \A i \in 1..Len(response.message) : response.message[i] \notin ExceptionTexts

\* the assessment path is entered and the reply decodes to an object whose
\* goal_type is a string that names no goal type
UnknownGoalTypeAssessed ==
    /\ pc = "done" /\ agent = "foundation"
    /\ Len(context.messages) >= 4 /\ OverrideSet(context)
    /\ DecodedObject(completion)
    /\ completion.payload.goal_type \in {"medium_term", "Medium_Term"}
    /\ completion.payload.motivation_score \in {"<absent>", "7"}

\* C7: an unknown goal-type string is coerced to the default goal type and the
\* assessment still succeeds with next_agent=Planning.
C7_UnknownGoalTypeCoerced ==
    UnknownGoalTypeAssessed =>
        /\ response.kind = "response" /\ response.success
        /\ response.next_agent = "planning"
        /\ response.data.schema = "FoundationOutput"
        /\ response.data.goal_type = "long_term"

\* what a task's frequency is to become: itself when it names a frequency
ExpectedFrequency(f) ==
    IF f \in {"daily", "weekly", "monthly", "one_time"} THEN f ELSE "one_time"

\* every task of the list is in the output, in place, with the frequency due
KeptTasks(proposed, out) ==
    /\ Len(out) = Len(proposed)
    /\ \A i \in 1..Len(proposed) :
          /\ out[i].title = proposed[i].title
          /\ out[i].frequency = ExpectedFrequency(proposed[i].frequency)

KeptPlan(payload, data) ==
    /\ data.schema = "PlanningOutput"
    /\ KeptTasks(payload.daily, data.task_schedule.daily)
    /\ KeptTasks(payload.weekly, data.task_schedule.weekly)
    /\ KeptTasks(payload.monthly, data.task_schedule.monthly)
    /\ Len(data.milestones) = Len(payload.milestones)
    /\ \A k \in 1..Len(payload.milestones) :
          KeptTasks(payload.milestones[k].tasks, data.milestones[k].tasks)

C9_HandoffExactlyOnSuccess ==
    (pc = "done" /\ response.kind = "response") =>
        /\ agent = "foundation" =>
              /\ response.next_agent \in {"none", "planning"}
              /\ response.next_agent = "planning" <=>
                    (response.success /\ response.data.schema = "FoundationOutput")
        /\ agent = "planning" =>
              /\ response.next_agent \in {"none", "execution"}
              /\ response.next_agent = "execution" <=> response.success

\* C9 witness: a successful intake turn, which carries no hint
C9_Witness ==
    /\ pc = "done" /\ agent = "foundation"
    /\ response.success /\ response.data.schema = "intake"
    /\ response.next_agent = "none"

\* one of the four failures of the recommendation path: no client, the call
\* raising, a reply that is no JSON, parsed data that builds no SupportOutput
RecommendationPathFails(cmpl) ==
    \/ cmpl.kind \in {"no_client", "api_error", "null_content"}
    \/ cmpl.kind = "text" /\ Strip(StripFences(cmpl.text)) # <<"JSON">>
    \/ cmpl.kind = "text" /\ Strip(StripFences(cmpl.text)) = <<"JSON">>
          /\ \/ cmpl.payload.shape = "list"
             \/ \E i \in 1..Len(cmpl.payload.recommended_resources) :
                   cmpl.payload.recommended_resources[i].relevance_score = "high"

\* C6: on every failure of the recommendation path the Support agent returns,
\* without raising, a successful response holding the built-in list, which has
\* a TOOL and a COMMUNITY entry.
C6_FallbackOnEveryFailure ==
    (pc = "done" /\ agent = "support" /\ RecommendationPathFails(completion)) =>
        /\ response.kind = "response" /\ response.success
        /\ response.data.schema = "SupportOutput"
        /\ response.data.recommended_resources =
              <<[type |-> "TOOL", name |-> "Google Calendar"],
                [type |-> "COMMUNITY", name |-> "Reddit Goal Setting"]>>
        /\ \E i \in 1..Len(response.data.recommended_resources) :
              response.data.recommended_resources[i].type = "TOOL"
        /\ \E i \in 1..Len(response.data.recommended_resources) :
              response.data.recommended_resources[i].type = "COMMUNITY"

\* C6 witness: the reply parsed, but a relevance score that is no number kept
\* the SupportOutput from being built
C6_Witness ==
    /\ pc = "done" /\ agent = "support"
    /\ DecodedObject(completion)
    /\ \E i \in 1..Len(completion.payload.recommended_resources) :
          completion.payload.recommended_resources[i].relevance_score = "high"
    /\ response.success

\* the history holds a completed task whose completion timestamp is on day d
CompletedOn(task_history, d) ==
    \E i \in 1..Len(task_history) :
        /\ task_history[i].status = "completed"
        /\ task_history[i].completed_at.kind = "iso"
        /\ task_history[i].completed_at.day = d

\* completions on each of the k days ending today, none on the day before them
StreakOf(task_history, now, k) ==
    /\ \A i \in 0..(k - 1) : CompletedOn(task_history, now - i)
    /\ ~CompletedOn(task_history, now - k)

\* C10: a history with completions on each of the k most recent days ending
\* today and none on the day k days back has streak k; an empty history has 0.
C10_StreakIsRunOfDays ==
    pc = "done" =>
        /\ \A k \in 0..(MaxHistory + 1) :
              StreakOf(context.task_history, today, k) => result.value = k
        /\ context.task_history = <<>> => result.value = 0

\* C10 witness: three days running up to today, among records that do not count
C10_Witness ==
    /\ pc = "done"
    /\ StreakOf(context.task_history, today, 3)
    /\ Len(context.task_history) = 4
    /\ result.value = 3

\* the agent the turn went to raised instead of returning
SelectedAgentRaised ==
    AgentProcess(AgentCoordinator_select(context), context, completion, today, draw).kind
        = "raised"

TaskCompleteAnswered ==
    /\ pc = "done" /\ agent = "execution"
    /\ context.additional_context.request_type = "task_complete"
    /\ response.kind = "response"

WeekBonusLine == "Wow! A full week streak!"

\* C11: on a task_complete request the message ends with the week-streak bonus
\* line exactly when the streak of the history is a positive multiple of 7,
\* whichever celebratory message was drawn, and data.streak_count is that streak.
C11_BonusIffWeekMultiple ==
    TaskCompleteAnswered =>
        \E k \in 0..StreakSpan :
            /\ StreakOf(context.task_history, today, k)
            /\ response.data.streak_count = k
            /\ response.message[1] = CelebrationPool[draw]
            /\ (response.message[Len(response.message)] = WeekBonusLine)
                  <=> (k > 0 /\ \E n \in 1..StreakSpan : k = 7 * n)

\* C11 witness: a fortnight without a gap, answered with the bonus line
C11_Witness ==
    /\ TaskCompleteAnswered
    /\ StreakOf(context.task_history, today, 14)
    /\ draw = 2
    /\ response.message[Len(response.message)] = WeekBonusLine

\* the tasks of the history whose created_at names today
CreatedToday(task_history, now) ==
    {i \in 1..Len(task_history) :
        task_history[i].created_at.kind = "iso" /\ task_history[i].created_at.day = now}

CompletedToday(task_history, now) ==
    {i \in CreatedToday(task_history, now) : task_history[i].status = "completed"}

SummaryAnswered ==
    /\ pc = "done" /\ agent = "execution"
    /\ context.additional_context.request_type = "daily_summary"

PsychAnswered == pc = "done" /\ agent = "psychological" /\ response.kind = "response"

\* C13: whatever cue words a conversation holds and however often, the three
\* levels _assess_emotional_state returns are within 1..10 and it returns at
\* most 3 distortion labels.
C13_LevelsClamped ==
    (pc = "done" /\ agent = "psychological") =>
        /\ result.exc = ""
        /\ result.value.motivation_level \in 1..10
        /\ result.value.stress_level \in 1..10
        /\ result.value.confidence_level \in 1..10
        /\ Len(result.value.detected_patterns) <= 3

\* C13 witness: six low-motivation words (a tally of -1) beside the turn that
\* shows four patterns
C13_Witness ==
    /\ pc = "done" /\ agent = "psychological"
    /\ \E i \in 1..Len(context.messages) : context.messages[i] = pLowA
    /\ \E i \in 1..Len(context.messages) : context.messages[i] = pPatterns
    /\ result.value.motivation_level = 1
    /\ Len(result.value.detected_patterns) = 3

\* the response of _provide_intervention: it carries an intervention
TookInterventionPath(r) == r.data.intervention.type # "none"

\* the response of _provide_encouragement
TookEncouragementPath(r) ==
    /\ r.data.intervention.type = "none"
    /\ r.data.progress_celebration = <<"Keep moving forward!">>

\* C14: process() takes the intervention path exactly when motivation < 4 or
\* stress > 7 or confidence < 4 or a distortion pattern was detected, and the
\* encouragement path otherwise.
C14_InterventionIffNeeded ==
    (PsychAnswered /\ result.exc = "") =>
        LET a == result.value
            needed == \/ a.motivation_level < 4 \/ a.stress_level > 7
                      \/ a.confidence_level < 4 \/ a.detected_patterns # <<>>
        IN  /\ response.data.emotional_assessment = a
            /\ needed => TookInterventionPath(response)
            /\ ~needed => TookEncouragementPath(response)

\* C14 witness: all three levels at 5 and one pattern, seen inside a word
C14_Witness ==
    /\ PsychAnswered
    /\ context.messages = <<pNevertheless>>
    /\ result.value.motivation_level = 5 /\ result.value.stress_level = 5
    /\ result.value.confidence_level = 5
    /\ TookInterventionPath(response)

\* C15: the intervention is fixed by (motivation, stress, confidence, patterns)
\* through the priority stress > 7, motivation < 4, confidence < 4, a detected
\* pattern (reframing built from the first one), general support.
C15_InterventionByPriority ==
    (PsychAnswered /\ result.exc = "" /\ TookInterventionPath(response)) =>
        LET a == result.value
            i == response.data.intervention
        IN  /\ a.stress_level > 7 => i.type = "STRESS_MANAGEMENT"
            /\ (a.stress_level <= 7 /\ a.motivation_level < 4)
                  => i.type = "MOTIVATION_BOOST"
            /\ (a.stress_level <= 7 /\ a.motivation_level >= 4
                    /\ a.confidence_level < 4)
                  => i.type = "CONFIDENCE_BUILDING"
            /\ (a.stress_level <= 7 /\ a.motivation_level >= 4
                    /\ a.confidence_level >= 4 /\ a.detected_patterns # <<>>)
                  => /\ i.type = "COGNITIVE_REFRAMING"
                     /\ i.message[2] = a.detected_patterns[1]
                     /\ i.exercises[1] = Reframe(a.detected_patterns[1])
            /\ (a.stress_level <= 7 /\ a.motivation_level >= 4
                    /\ a.confidence_level >= 4 /\ a.detected_patterns = <<>>)
                  => i.type = "GENERAL_SUPPORT"

\* C15 witness: stress 8 and motivation 3 with a pattern: stress management
C15_Witness ==
    /\ PsychAnswered
    /\ result.value.stress_level = 8 /\ result.value.motivation_level = 3
    /\ result.value.detected_patterns # <<>>
    /\ response.data.intervention.type = "STRESS_MANAGEMENT"

\* the truncation of 0.6 * h + 0.4 * (100 - b) = (3h + 2(100 - b)) / 5
ExactScore(h, b) == (3 * h + 2 * (100 - b)) \div 5

RECURSIVE SumOfUsage(_)
SumOfUsage(n) == IF n = 0 THEN 0 ELSE requests[n].usage + SumOfUsage(n - 1)

\* C18: token usage updates are atomic with respect to concurrent requests:
\* whatever the interleaving of the track_openai_usage calls for one user, the
\* stored tokens_used afterwards is its value before plus the sum of the
\* total_tokens of all the calls.
C18_NoUpdateLost ==
    (agent = "send_message" /\ \A r \in 1..MaxRequests : requests[r].pc = "done")
        => users[1].tokens_used = DefaultTokensUsed + SumOfUsage(MaxRequests)

\* C19: quota is checked before API calls: in send_message every completion
\* call made for the user comes after check_user_quota, so a request from a
\* user whose tokens_used exceeds token_limit, with no reset due, ends in a 429
\* response without any completion call.
C19_QuotaCheckedBeforeCalls ==
    (pc = "done" /\ agent = "send_message") =>
        LET calls == requests[1].calls
        IN  /\ \A i \in 1..Len(calls) :
                  calls[i] = "completion" =>
                      \E j \in 1..(i - 1) : calls[j] = "check_user_quota"
            /\ requests[1].exceeded =>
                  /\ requests[1].status = 429
                  /\ \A i \in 1..Len(calls) : calls[i] # "completion"

\* C20: user status and quota are admin-only: a user's is_superuser, is_active
\* or token_limit changes only through a request whose caller passed
\* get_current_admin, and no request by a caller who did not pass it creates a
\* superuser account or sets is_superuser on any account.
C20_StatusAndQuotaAdminOnly ==
    [][(agent = "admin" /\
          \E id \in DOMAIN users' :
              \/ id \notin DOMAIN users /\ users'[id].is_superuser
              \/ /\ id \in DOMAIN users
                 /\ \/ users'[id].is_superuser # users[id].is_superuser
                    \/ users'[id].is_active # users[id].is_active
                    \/ users'[id].token_limit # users[id].token_limit)
        => requests'[1].admin]_vars

\* a send_message request that found the session not ACTIVE when it came in
SendRejected(r) ==
    /\ requests[r].endpoint = "send_message"
    /\ requests[r].pc = "new"
    /\ chats.status # "active"

\* C21: for every interleaving of send_message and finalize_session requests on
\* one session, once the session is no longer ACTIVE its stored messages never
\* grow, and a send_message arriving at a session that is not ACTIVE ends with
\* 400 and stores no message.
C21_NoMessageAfterFinalize ==
    [][/\ chats.status # "active" => Len(chats'.messages) <= Len(chats.messages)
       /\ \A r \in 1..MaxRequests :
             (SendRejected(r) /\ requests'[r] # requests[r])
                 => (requests'[r].status = 400 /\ chats'.messages = chats.messages)]_vars

\* requests that ended with 200 on finalize_session
Finalized ==
    {r \in 1..MaxRequests :
        requests[r].endpoint = "finalize_session" /\ requests[r].pc = "done"
        /\ requests[r].status = 200}

\* C30: for every interleaving of finalize_session requests on one ACTIVE
\* session, at most one request creates a goal and sets the session FINALIZED,
\* and every other one that ends is rejected with 400 "Session already
\* finalized" without creating a goal.
C30_FinalizedAtMostOnce ==
    pc = "serving" /\ agent = "chat"
        => /\ Len(chats.goals) <= 1
           /\ Cardinality(Finalized) <= 1

\* the Sustainability helpers have returned
Analyzed == pc = "done" /\ agent = "sustainability" /\ result.exc = "<none>"

\* completed records among task_history[from..to]
CompletedBetween(task_history, from, to) ==
    Cardinality({i \in from..to : task_history[i].status = "completed"})

\* some of the last five messages holds a stress keyword
StressInLastFive(messages) ==
    \E i \in 1..Len(messages) :
        /\ i > Len(messages) - RecentMessages
        /\ AnyWordIn(Lower(messages[i].content), BurnoutStressWords)

\* the score the comparison of the last seven records with the seven before
\* them gives: k/7 - j/7 > 0.15 is 20 (k - j) > 21
WindowedBurnoutScore(ctx) ==
    LET n == Len(ctx.task_history)
        recent == CompletedBetween(ctx.task_history, n - 6, n)
        older  == CompletedBetween(ctx.task_history, n - 13, n - 7)
        trend  == IF 20 * (older - recent) > 21 THEN 20
                  ELSE IF recent > older THEN -10 ELSE 0
    IN  50 + trend + (IF StressInLastFive(ctx.messages) THEN 15 ELSE 0)

\* C22: for every task_history of at least 14 records the burnout score is 50,
\* plus 20 when the completion rate of the last 7 records is more than 0.15
\* below that of the 7 before them, minus 10 when it is above it, plus 15 once
\* when any of the last 5 messages holds a stress keyword, clamped to [0,100];
\* the label is HIGH from 70, MEDIUM from 40, else LOW.
C22_BurnoutComparesTwoWindows ==
    (Analyzed /\ Len(context.task_history) >= 14)
        => LET score == result.value.burnout.burnout_score
               risk  == result.value.burnout.risk
           IN  /\ score = WindowedBurnoutScore(context)
               /\ score \in 0..100
               /\ risk = (IF score >= 70 THEN "HIGH"
                          ELSE IF score >= 40 THEN "MEDIUM" ELSE "LOW")

\* titles of task_history with at least 7 completed records
HabitTitleSet(task_history) ==
    {t \in {task_history[i].title : i \in 1..Len(task_history)} :
        t # "" /\ CompletedWithTitle(task_history, t) >= 7}

\* round(100 m / 90): 10 m / 9 never falls on a half
RoundedHabitScore(m) ==
    IF (100 * m + 45) \div 90 > 100 THEN 100 ELSE (100 * m + 45) \div 90

\* C23: for every task_history, _analyze_habits emits one habit loop (routine =
\* title) for each title with at least 7 completed records, keeps at most 3 of
\* them, and returns habit_score = min(100, round(100 m / 90)), m being the
\* largest completed count of such a title, 0 when there is none.
C23_HabitScoreIsRounded ==
    Analyzed
        => LET habits == HabitTitleSet(context.task_history)
               loops  == result.value.habit_analysis.habit_loops
               m == IF habits = {} THEN 0
                    ELSE CHOOSE c \in 0..Len(context.task_history) :
                             /\ \E t \in habits :
                                   CompletedWithTitle(context.task_history, t) = c
                             /\ \A t \in habits :
                                   CompletedWithTitle(context.task_history, t) <= c
           IN  /\ Len(loops) = (IF Cardinality(habits) > 3 THEN 3
                                ELSE Cardinality(habits))
               /\ \A i \in 1..Len(loops) : loops[i].routine \in habits
               /\ \A i, j \in 1..Len(loops) :
                     loops[i].routine = loops[j].routine => i = j
               /\ result.value.habit_analysis.habit_score = RoundedHabitScore(m)

\* weekdays on which some record of task_history was completed
ActiveWeekdays(task_history) ==
    {WeekdayOf(task_history[i].completed_at) : i \in Timed(task_history)}

HasInconsistentRoutine(failure_patterns) ==
    \E i \in 1..Len(failure_patterns) :
        failure_patterns[i] = "Inconsistent daily routine"

\* C24: for every non-empty task_history, _detect_patterns adds "Inconsistent
\* daily routine" exactly when fewer than 3 distinct weekdays show completion
\* activity (0, 1 or 2 of them).
C24_InconsistentBelowThreeDays ==
    (Analyzed /\ Len(context.task_history) > 0)
        => (HasInconsistentRoutine(result.value.pattern_insights.failure_patterns)
               <=> Cardinality(ActiveWeekdays(context.task_history)) < 3)

\* C28: for every context the burnout score is one of 40, 50, 55, 65, 70, 85,
\* the risk label is never LOW, and the recommendation list of the agent's
\* output is never empty and never longer than 4.
C28_BurnoutNeverLow ==
    Analyzed
        => /\ result.value.burnout.burnout_score \in {40, 50, 55, 65, 70, 85}
           /\ result.value.burnout.risk # "LOW"
           /\ response.kind = "response"
           /\ response.data.burnout_risk = result.value.burnout.risk
           /\ Len(response.data.recommendations) \in 1..4

\* a falling completion rate and a stress keyword: 85, HIGH, four recommendations
C28_Witness ==
    /\ Analyzed
    /\ result.value.burnout.burnout_score = 85
    /\ response.data.burnout_risk = "HIGH"
    /\ Len(response.data.recommendations) = 4

\* one fixed affirmation per threshold that triggers, the generic one for none
AffirmationsByThreshold(assessment) ==
    LET triggered ==
            (IF assessment.motivation_level < 5
             THEN <<"Your small efforts today create big results tomorrow.">> ELSE <<>>)
            \o (IF assessment.stress_level > 5
                THEN <<"You are capable of handling whatever comes your way.">> ELSE <<>>)
            \o (IF assessment.confidence_level < 5
                THEN <<"You have already proven you can do hard things.">> ELSE <<>>)
    IN  IF Len(triggered) = 0
        THEN <<"You are making progress, even when it doesn't feel like it.">>
        ELSE triggered

\* C25: the affirmations in the Psychological agent's output are the ones the
\* thresholds (motivation < 5, stress > 5, confidence < 5) select, the generic
\* one when none triggers, so the list is never empty, on the intervention path
\* and on the encouragement path alike.
C25_AffirmationsNeverEmpty ==
    PsychAnswered
        => /\ response.data.affirmations
                 = AffirmationsByThreshold(response.data.emotional_assessment)
           /\ Len(response.data.affirmations) >= 1

\* C29: in every response of PsychologicalAgent.process the intervention type
\* is never GENERAL_SUPPORT: when the intervention path is entered, one of the
\* stress, motivation, confidence or detected-pattern branches is taken.
C29_NoGeneralSupport ==
    PsychAnswered
        => /\ response.data.intervention.type # "GENERAL_SUPPORT"
           /\ NeedsIntervention(response.data.emotional_assessment)
                  => response.data.intervention.type
                         \in {"STRESS_MANAGEMENT", "MOTIVATION_BOOST",
                              "CONFIDENCE_BUILDING", "COGNITIVE_REFRAMING"}

\* the intervention path entered by a detected pattern alone: the last branch
\* before the else
C29_Witness ==
    /\ PsychAnswered
    /\ response.data.intervention.type = "COGNITIVE_REFRAMING"
    /\ response.data.emotional_assessment.stress_level <= 7
    /\ response.data.emotional_assessment.motivation_level >= 4
    /\ response.data.emotional_assessment.confidence_level >= 4

\* C26: whenever the Foundation agent is not ready to assess, the response it
\* returns has requires_user_input = true and no next_agent, both when the
\* completion call for the clarifying question succeeds and when it fails.
C26_IntakeAwaitsUser ==
    (/\ pc = "done"
     /\ agent = "foundation"
     /\ response.kind = "response"
     /\ ~FoundationAgent_should_generate_assessment(context).value)
        => /\ response.requires_user_input = TRUE
           /\ response.next_agent = "none"

\* C27: the only next_agent values any agent emits are Planning, from
\* Foundation, and Execution, from Planning; Execution, Psychological, Support
\* and Sustainability set none; so a chain that invokes the hinted agent stops
\* after at most 2 hops and never invokes an agent twice.
C27_HandoffChainsEnd ==
    /\ (pc = "ran" /\ response.kind = "response")
           => /\ response.next_agent \in {"none", "planning", "execution"}
              /\ response.next_agent = "planning" => agent = "foundation"
              /\ response.next_agent = "execution" => agent = "planning"
    /\ Len(chain) <= 3
    /\ \A i, j \in 1..Len(chain) : chain[i] = chain[j] => i = j

\* the longest chain: Foundation hands to Planning, Planning to Execution,
\* Execution to nobody
C27_Witness ==
    /\ pc = "ran"
    /\ chain = <<"foundation", "planning", "execution">>
    /\ response.kind = "response"
    /\ response.next_agent = "none"

====
